---- MODULE Spec2Model ----
(***************************************************************************)
(* Model of the arhivach thread archiver: the bounded download engine      *)
(* (downloader.py), the tag listing walker and the thread document         *)
(* transformer (parser.py).                                                 *)
(*                                                                          *)
(* A filename is a sequence of its dot-separated segments:                  *)
(*   "a.png" = <<"a","png">>,  ".png" = <<"","png">>,                       *)
(*   "h.png.thumb" = <<"h","png","thumb">>.                                 *)
(***************************************************************************)
EXTENDS Integers, Sequences, FiniteSets, TLC

VARIABLES
    \* ---- configuration (config.py) and MediaDownloader fields
    CONVERT_IMAGES_TO_JPG,  \* config.CONVERT_IMAGES_TO_JPG
    max_concurrent,         \* MediaDownloader.max_concurrent
    max_retries,            \* MediaDownloader.max_retries
    media_files,            \* the batch passed to download_media_files
    stats,                  \* MediaDownloader.stats (DownloadStats)
    semaphore,              \* free slots of MediaDownloader.semaphore
    holders,                \* tasks inside "async with self.semaphore"
    disk,                   \* output_dir: filename -> content or NoFile
    disk0,                  \* output_dir as it was when the batch started
    phase,                  \* position of download_media_files
    started,                \* number of tasks whose first step has run
    pc,                     \* position of each _download_file task
    attempt,                \* loop variable of _download_with_retry
    content,                \* local "content" of each task (None once it failed)
    \* ---- observations of the environment of the batch
    requests,               \* session.get calls issued per task
    delays,                 \* asyncio.sleep arguments per task, in order
    responses,              \* kinds of the responses received per task
    outcome,                \* terminal outcome of each task
    written,                \* what each task wrote to output_dir, in order
    transcoded,             \* the bytes each task gave to the transcoder, if any
    \* ---- tag listing walker (ArhivachParser.get_all_threads_from_tag)
    tag_id,                 \* argument tag_id
    max_pages,              \* argument max_pages: [given, n], None when not given
    wpc,                    \* position of get_all_threads_from_tag
    all_threads,            \* local all_threads
    total_pages,            \* local total_pages
    page,                   \* loop variable page
    fetch_log,              \* the listing pages requested so far, in order
    site_pages,             \* the number of pages the site holds for the tag
    \* ---- thread document transformer (ArhivachParser.parse_thread)
    tpc,                    \* position of parse_thread
    soup,                   \* the parsed document: its elements, in order
    soup0,                  \* the document as _get_page returned it
    resource_files,         \* local resource_files
    collected,              \* local media_files of parse_thread
    original_filenames,     \* local original_filenames
    video_hash_to_filename, \* local video_hash_to_filename (its keys)
    \* ---- folder naming (ArhivachParser.get_folder_name)
    thread_date,            \* argument thread_date: its characters
    thread_id,              \* argument thread_id
    folder_name,            \* the name returned, <<>> before the call
    \* ---- watch-list (main.py: add_to_monitor, remove_from_monitor)
    monitor_file,           \* monitor_list.json: [readable, items]
    monitor_op,             \* the last watch-list operation and its input
    \* ---- bulk tag archival (main.py: the loops over the listed threads)
    bulk_flow,              \* "interactive" or "cli"
    listing,                \* what get_all_threads_from_tag returned
    threads,                \* local threads, as the loop iterates it
    bpc,                    \* position of the bulk archival
    thread_index,           \* loop variable i
    successful,             \* local successful
    failed,                 \* local failed (interactive flow)
    attempted,              \* the threads the loop body ran for so far, in
                            \* order, each with the outcome of its iteration
    \* ---- page count of a listing page (get_threads_from_tag_page)
    links_tag,              \* argument tag_id
    all_links,              \* soup.find_all('a', href=True)
    inferred_total,         \* the total_pages returned, 0 before the call
    \* ---- folder name sanitizing (main.py: sanitize_folder_name)
    raw_name,               \* argument name
    safe_name,              \* the name returned, empty before the call
    \* ---- archival of one thread (main.py: download_single_thread_interactive)
    apc,                    \* position of download_single_thread_interactive
    thread_dir              \* what the flow created under config.OUTPUT_DIR

dlvars == <<CONVERT_IMAGES_TO_JPG, max_concurrent, max_retries, media_files,
            stats, semaphore, holders, disk, disk0, phase, started, pc,
            attempt, content, requests, delays, responses, outcome,
            written, transcoded>>

wvars == <<tag_id, max_pages, wpc, all_threads, total_pages, page, fetch_log,
           site_pages>>

tvars == <<tpc, soup, soup0, resource_files, collected, original_filenames,
           video_hash_to_filename>>

fvars == <<thread_date, thread_id, folder_name>>

mvars == <<monitor_file, monitor_op>>

bvars == <<bulk_flow, listing, threads, bpc, thread_index, successful, failed, attempted>>

\* the orchestration around the engine, the walker and the transformer
pgvars == <<links_tag, all_links, inferred_total>>

\* what the later sections add
svars == <<raw_name, safe_name>>

avars == <<apc, thread_dir>>

xvars == <<pgvars, svars, avars>>

ovars == <<fvars, mvars, bvars, xvars>>

vars == <<dlvars, wvars, tvars, ovars>>

-----------------------------------------------------------------------------
(* Bounds *)

MaxAssets == 2          \* longest batch
MaxLen == 1             \* longest response body
MaxOldFiles == 1        \* most files in the output directory before the batch
MaxRetriesBound == 3    \* largest max_retries drawn
MaxConcBound == 2       \* largest max_concurrent drawn
MaxSitePages == 3       \* most pages a tag listing announces
MaxThreads == 2         \* most threads on one listing page
MaxElems == 3           \* most media elements of a thread page
MaxDateLen == 9         \* longest date string
MaxMonitorId == 11      \* largest thread or tag id given to the watch-list
MaxListed == 3          \* most threads in the listing of a bulk archival
MaxLinks == 2           \* most anchors of a listing page
MaxRuns == 3            \* most runs of equal characters in a folder name
MaxRetriesFair == 2     \* largest max_retries of the fair batches
MaxArchiveElems == 2    \* most media elements of an archived thread page

-----------------------------------------------------------------------------
(* Filenames *)

CONVERTIBLE_EXTENSIONS == {"png", "webp", "bmp"}

Lower(s) ==
    CASE s = "PNG" -> "png"
      [] s = "JPG" -> "jpg"
      [] s = "MP4" -> "mp4"
      [] OTHER -> s

\* os.path.splitext: the extension is the last segment, unless the name has no
\* dot or only leading dots before it
AllEmpty(segs) == \A k \in 1..Len(segs) : segs[k] = ""

HasExt(filename) ==
    /\ Len(filename) >= 2
    /\ ~AllEmpty(SubSeq(filename, 1, Len(filename) - 1))

SplitBase(filename) ==
    IF HasExt(filename) THEN SubSeq(filename, 1, Len(filename) - 1)
    ELSE filename

SplitExt(filename) ==
    IF HasExt(filename) THEN filename[Len(filename)] ELSE ""

get_jpg_filename(filename) ==
    IF Lower(SplitExt(filename)) \in CONVERTIBLE_EXTENSIONS
    THEN Append(SplitBase(filename), "jpg")
    ELSE filename

should_convert(conv, filename) ==
    IF ~conv THEN FALSE
    ELSE Lower(SplitExt(filename)) \in CONVERTIBLE_EXTENSIONS

\* a directory maps every filename to its content, NoFile when there is none
NoFile == [kind |-> "none", len |-> 0]

\* os.path.exists(os.path.join(output_dir, filename))
Exists(dir, filename) == dir[filename] # NoFile

\* variant: the converted name is looked for only while conversion is on
file_exists_no_reverse(dir, conv, filename) ==
    IF Exists(dir, filename) THEN TRUE
    ELSE IF should_convert(conv, filename)
            /\ Exists(dir, get_jpg_filename(filename)) THEN TRUE
    ELSE FALSE

\* file_exists: original name, converted name, and the converted name again
\* when conversion is off but an earlier run converted the file
file_exists(dir, conv, filename) ==
    IF Exists(dir, filename) THEN TRUE
    ELSE IF should_convert(conv, filename)
            /\ Exists(dir, get_jpg_filename(filename)) THEN TRUE
    ELSE IF Lower(SplitExt(filename)) \in CONVERTIBLE_EXTENSIONS
            /\ Exists(dir, Append(SplitBase(filename), "jpg")) THEN TRUE
    ELSE FALSE

\* config.MEDIA_EXTENSIONS and _get_file_type: str.endswith on the lowered name
IMAGE_EXTENSIONS == {"jpg", "jpeg", "png", "gif", "webp", "bmp"}
VIDEO_EXTENSIONS == {"mp4", "webm", "mov", "avi"}
OTHER_EXTENSIONS == {"pdf", "zip", "rar", "7z"}

EndsWithExt(filename, exts) ==
    /\ Len(filename) >= 2
    /\ Lower(filename[Len(filename)]) \in exts

get_file_type(filename) ==
    IF EndsWithExt(filename, IMAGE_EXTENSIONS) THEN "image"
    ELSE IF EndsWithExt(filename, VIDEO_EXTENSIONS) THEN "video"
    ELSE IF EndsWithExt(filename, OTHER_EXTENSIONS) THEN "other"
    ELSE "None"

-----------------------------------------------------------------------------
(* Contents: what matters of a byte string is what it decodes as and its   *)
(* length.  "jpeg" is a valid JPEG, "raster" any other image PIL decodes,   *)
(* "garbage" bytes on which Image.open or img.save raises.                  *)

Contents ==
    [kind : {"jpeg", "raster"}, len : 1..MaxLen]
        \cup [kind : {"garbage"}, len : 0..MaxLen]
OldFile == [kind |-> "old", len |-> 1]          \* a file left by an earlier run
Truncated == [kind |-> "garbage", len |-> 0]    \* a file opened 'wb', not written
NoContent == [kind |-> "none", len |-> 0]       \* content is None

\* variant: the image is never re-encoded
convert_image_keep(bytes, jpgLen) == bytes

\* variant: bytes that cannot be decoded come back as nothing
convert_image_drop(bytes, jpgLen) ==
    IF bytes.kind \in {"jpeg", "raster"}
    THEN [kind |-> "jpeg", len |-> jpgLen]
    ELSE [kind |-> "none", len |-> 0]

\* convert_image_to_jpg: jpgLen is the length of the encoder's output
convert_image_to_jpg(bytes, jpgLen) ==
    IF bytes.kind \in {"jpeg", "raster"}
    THEN [kind |-> "jpeg", len |-> jpgLen]
    ELSE bytes

-----------------------------------------------------------------------------
(* DownloadStats *)

DownloadStats(n) ==
    [total |-> n, completed |-> 0, failed |-> 0, skipped |-> 0,
     converted |-> 0, retried |-> 0, total_bytes |-> 0]

\* variant: an update adds its amount twice
BumpTwice(st, field, n) == [st EXCEPT ![field] = @ + n + n]

\* variant: the update overwrites the counter instead of adding to it
BumpOverwrite(st, field, n) == [st EXCEPT ![field] = n]

\* self.stats.<field> += n
Bump(st, field, n) == [st EXCEPT ![field] = @ + n]

-----------------------------------------------------------------------------
(* The batch: download_media_files and its _download_file tasks *)

\* filenames the batches and the output directory are drawn from
Names ==
    { <<"a", "png">>, <<"a", "jpg">>, <<"a", "PNG">>, <<"b", "mp4">>,
      <<"", "png">> }

MediaFile(u, f, t) == [url |-> u, filename |-> f, file_type |-> t]

StorageUrl(f) == [scheme |-> "https", host |-> "main", dir |-> "a", name |-> f]

Assets == { MediaFile(StorageUrl(f), f, get_file_type(f)) : f \in Names }

\* the batches: lists of assets with pairwise distinct urls
Batches ==
    { b \in UNION { [1..n -> Assets] : n \in 1..MaxAssets } :
        \A i, j \in DOMAIN b : i # j => b[i].url # b[j].url }

Tasks == 1..Len(media_files)

Responses ==
    [status : {"ok"}, body : Contents]
        \cup [status : {"notfound", "transient"}, body : {NoContent}]

\* final_filename of _download_file
final_filename(conv, filename) ==
    IF should_convert(conv, filename) THEN get_jpg_filename(filename)
    ELSE filename

FinalName(i) == final_filename(CONVERT_IMAGES_TO_JPG, media_files[i].filename)

\* MediaDownloader.__init__ and the process configuration
InitDL ==
    /\ CONVERT_IMAGES_TO_JPG \in BOOLEAN
    /\ max_concurrent \in 1..MaxConcBound
    /\ max_retries \in 1..MaxRetriesBound
    /\ media_files = <<>>
    /\ stats = DownloadStats(0)
    /\ semaphore = 0
    /\ holders = {}
    /\ disk \in { d \in [Names -> {NoFile, OldFile}] :
                     Cardinality({ f \in Names : d[f] = OldFile }) <= MaxOldFiles }
    /\ disk0 = disk
    /\ phase = "idle"
    /\ started = 0
    /\ pc = <<>>
    /\ attempt = <<>>
    /\ content = <<>>
    /\ requests = <<>>
    /\ delays = <<>>
    /\ responses = <<>>
    /\ outcome = <<>>
    /\ written = <<>>
    /\ transcoded = <<>>

cfgvars == <<CONVERT_IMAGES_TO_JPG, max_concurrent, max_retries>>

\* download_media_files up to asyncio.gather: reset the statistics, create the
\* semaphore and one task per file
BeginBatch(files) ==
    /\ phase = "idle"
    /\ media_files' = files
    /\ stats' = DownloadStats(Len(files))
    /\ semaphore' = max_concurrent
    /\ holders' = {}
    /\ phase' = "running"
    /\ started' = 0
    /\ pc' = [i \in 1..Len(files) |-> "new"]
    /\ attempt' = [i \in 1..Len(files) |-> 0]
    /\ content' = [i \in 1..Len(files) |-> NoContent]
    /\ requests' = [i \in 1..Len(files) |-> 0]
    /\ delays' = [i \in 1..Len(files) |-> <<>>]
    /\ responses' = [i \in 1..Len(files) |-> <<>>]
    /\ outcome' = [i \in 1..Len(files) |-> "none"]
    /\ written' = [i \in 1..Len(files) |-> <<>>]
    /\ transcoded' = [i \in 1..Len(files) |-> NoContent]
    /\ disk0' = disk
    /\ UNCHANGED <<cfgvars, disk>>
    /\ UNCHANGED <<wvars, tvars, ovars>>

\* variant: the slot count is never looked at
CanAcquireAlways(sem) == TRUE

\* asyncio.Semaphore: acquire proceeds only while a slot is free
CanAcquire(sem) == sem > 0

\* the backoff of _download_with_retry after the attempt with index att
BaseDelay == 1

\* variant: the delay does not grow with the attempt
RetryDelayFlat(att) == BaseDelay

RetryDelay(att) == BaseDelay * (att + 1)

\* whether the retry loop has another iteration after attempt att
IsNotLastAttempt(att, retries) == att < retries - 1

\* variant: a 404 is retried like any other failure
ShouldRetryNotFound(status, att, retries) == IsNotLastAttempt(att, retries)

\* a failed attempt is followed by a sleep and a new attempt unless the
\* status was 404 (return None at once) or the attempts are used up
ShouldRetry(status, att, retries) ==
    /\ status # "notfound"
    /\ IsNotLastAttempt(att, retries)

\* _download_file up to its first suspension.  asyncio runs the first step of
\* every task of the gather, in list order, before any task is resumed.
Start(i) ==
    /\ phase = "running"
    /\ i \in Tasks
    /\ i = started + 1
    /\ pc[i] = "new"
    /\ started' = i
    /\ IF file_exists(disk, CONVERT_IMAGES_TO_JPG, media_files[i].filename)
       THEN /\ stats' = Bump(stats, "skipped", 1)
            /\ pc' = [pc EXCEPT ![i] = "done"]
            /\ outcome' = [outcome EXCEPT ![i] = "skipped"]
            /\ UNCHANGED <<semaphore, holders, requests>>
       ELSE IF CanAcquire(semaphore)
       THEN /\ semaphore' = semaphore - 1
            /\ holders' = holders \cup {i}
            /\ requests' = [requests EXCEPT ![i] = @ + 1]
            /\ pc' = [pc EXCEPT ![i] = "get"]
            /\ UNCHANGED <<stats, outcome>>
       ELSE /\ pc' = [pc EXCEPT ![i] = "wait"]
            /\ UNCHANGED <<stats, outcome, semaphore, holders, requests>>
    /\ UNCHANGED <<cfgvars, media_files, disk, disk0, phase, attempt, content,
                   delays, responses, written, transcoded>>
    /\ UNCHANGED <<wvars, tvars, ovars>>

\* a task blocked in "async with self.semaphore" gets a slot and issues the
\* first request of _download_with_retry
Acquire(i) ==
    /\ phase = "running"
    /\ started = Len(media_files)
    /\ i \in Tasks
    /\ pc[i] = "wait"
    /\ CanAcquire(semaphore)
    /\ semaphore' = semaphore - 1
    /\ holders' = holders \cup {i}
    /\ requests' = [requests EXCEPT ![i] = @ + 1]
    /\ pc' = [pc EXCEPT ![i] = "get"]
    /\ UNCHANGED <<cfgvars, media_files, stats, disk, disk0, phase, started,
                   attempt, content, delays, responses, outcome, written,
                   transcoded>>
    /\ UNCHANGED <<wvars, tvars, ovars>>

\* the session.get of the current attempt ends with response r
\* (the locals of a task that returns are gone)
Respond(i, r) ==
    /\ phase = "running"
    /\ started = Len(media_files)
    /\ i \in Tasks
    /\ pc[i] = "get"
    /\ responses' = [responses EXCEPT ![i] = Append(@, r.status)]
    /\ IF r.status = "ok"
       THEN \* return await response.read()
            /\ content' = [content EXCEPT ![i] = r.body]
            /\ pc' = [pc EXCEPT ![i] =
                 IF should_convert(CONVERT_IMAGES_TO_JPG, media_files[i].filename)
                 THEN "convert" ELSE "open"]
            /\ UNCHANGED <<stats, semaphore, holders, delays, outcome>>
       ELSE IF ShouldRetry(r.status, attempt[i], max_retries)
       THEN \* self.stats.retried += 1; await asyncio.sleep(...)
            /\ stats' = Bump(stats, "retried", 1)
            /\ delays' = [delays EXCEPT ![i] = Append(@, RetryDelay(attempt[i]))]
            /\ pc' = [pc EXCEPT ![i] = "sleep"]
            /\ UNCHANGED <<content, semaphore, holders, outcome>>
       ELSE \* 404, or the last attempt failed: content is None
            /\ stats' = Bump(stats, "failed", 1)
            /\ semaphore' = semaphore + 1
            /\ holders' = holders \ {i}
            /\ pc' = [pc EXCEPT ![i] = "done"]
            /\ outcome' = [outcome EXCEPT ![i] = "failed"]
            /\ UNCHANGED <<content, delays>>
    /\ UNCHANGED <<cfgvars, media_files, disk, disk0, phase, started, attempt,
                   requests, written, transcoded>>
    /\ UNCHANGED <<wvars, tvars, ovars>>

\* the backoff sleep ends: next iteration of the retry loop
WakeUp(i) ==
    /\ phase = "running"
    /\ i \in Tasks
    /\ pc[i] = "sleep"
    /\ attempt' = [attempt EXCEPT ![i] = @ + 1]
    /\ requests' = [requests EXCEPT ![i] = @ + 1]
    /\ pc' = [pc EXCEPT ![i] = "get"]
    /\ UNCHANGED <<cfgvars, media_files, stats, semaphore, holders, disk, disk0,
                   phase, started, content, delays, responses, outcome, written,
                   transcoded>>
    /\ UNCHANGED <<wvars, tvars, ovars>>

\* run_in_executor(convert_image_to_jpg) returns; the file is then opened
Converted(i, jpgLen) ==
    /\ phase = "running"
    /\ i \in Tasks
    /\ pc[i] = "convert"
    /\ content' = [content EXCEPT ![i] = convert_image_to_jpg(@, jpgLen)]
    /\ transcoded' = [transcoded EXCEPT ![i] = content[i]]
    /\ stats' = Bump(stats, "converted", 1)
    /\ pc' = [pc EXCEPT ![i] = "open"]
    /\ UNCHANGED <<cfgvars, media_files, semaphore, holders, disk, disk0, phase,
                   started, attempt, requests, delays, responses, outcome,
                   written>>
    /\ UNCHANGED <<wvars, tvars, ovars>>

\* variant: a task whose open raises leaves without giving its slot back
OpenKeepsSlot(i, ok) ==
    /\ phase = "running"
    /\ i \in Tasks
    /\ pc[i] = "open"
    /\ IF ok
       THEN /\ disk' = [disk EXCEPT ![FinalName(i)] = Truncated]
            /\ written' = [written EXCEPT ![i] = Append(@, FinalName(i))]
            /\ pc' = [pc EXCEPT ![i] = "write"]
            /\ UNCHANGED <<stats, outcome, content>>
       ELSE /\ stats' = Bump(stats, "failed", 1)
            /\ pc' = [pc EXCEPT ![i] = "done"]
            /\ outcome' = [outcome EXCEPT ![i] = "failed"]
            /\ content' = [content EXCEPT ![i] = NoContent]
            /\ UNCHANGED <<disk, written>>
    /\ UNCHANGED <<semaphore, holders>>
    /\ UNCHANGED <<cfgvars, media_files, disk0, phase, started, attempt,
                   requests, delays, responses, transcoded>>
    /\ UNCHANGED <<wvars, tvars, ovars>>

\* aiofiles.open(filepath, 'wb') returns (the file is created or truncated)
\* or raises
Open(i, ok) ==
    /\ phase = "running"
    /\ i \in Tasks
    /\ pc[i] = "open"
    /\ IF ok
       THEN /\ disk' = [disk EXCEPT ![FinalName(i)] = Truncated]
            /\ written' = [written EXCEPT ![i] = Append(@, FinalName(i))]
            /\ pc' = [pc EXCEPT ![i] = "write"]
            /\ UNCHANGED <<stats, semaphore, holders, outcome, content>>
       ELSE /\ stats' = Bump(stats, "failed", 1)
            /\ semaphore' = semaphore + 1
            /\ holders' = holders \ {i}
            /\ pc' = [pc EXCEPT ![i] = "done"]
            /\ outcome' = [outcome EXCEPT ![i] = "failed"]
            /\ content' = [content EXCEPT ![i] = NoContent]
            /\ UNCHANGED <<disk, written>>
    /\ UNCHANGED <<cfgvars, media_files, disk0, phase, started, attempt,
                   requests, delays, responses, transcoded>>
    /\ UNCHANGED <<wvars, tvars, ovars>>

\* variant: an exception of f.write leaves _download_file and gather, so the
\* batch ends with it, uncounted
WriteUnguarded(i, ok) ==
    /\ phase = "running"
    /\ i \in Tasks
    /\ pc[i] = "write"
    /\ semaphore' = semaphore + 1
    /\ holders' = holders \ {i}
    /\ pc' = [pc EXCEPT ![i] = "done"]
    /\ IF ok
       THEN /\ disk' = [disk EXCEPT ![FinalName(i)] = content[i]]
            /\ stats' = Bump(Bump(stats, "completed", 1),
                             "total_bytes", content[i].len)
            /\ outcome' = [outcome EXCEPT ![i] = "completed"]
            /\ UNCHANGED <<content, phase>>
       ELSE /\ phase' = "returned"
            /\ outcome' = [outcome EXCEPT ![i] = "failed"]
            /\ content' = [content EXCEPT ![i] = NoContent]
            /\ UNCHANGED <<disk, stats>>
    /\ UNCHANGED <<cfgvars, media_files, disk0, started, attempt,
                   requests, delays, responses, written, transcoded>>
    /\ UNCHANGED <<wvars, tvars, ovars>>

\* f.write(content) and the close of the file return, or raise
Write(i, ok) ==
    /\ phase = "running"
    /\ i \in Tasks
    /\ pc[i] = "write"
    /\ semaphore' = semaphore + 1
    /\ holders' = holders \ {i}
    /\ pc' = [pc EXCEPT ![i] = "done"]
    /\ IF ok
       THEN /\ disk' = [disk EXCEPT ![FinalName(i)] = content[i]]
            /\ stats' = Bump(Bump(stats, "completed", 1),
                             "total_bytes", content[i].len)
            /\ outcome' = [outcome EXCEPT ![i] = "completed"]
            /\ UNCHANGED content
       ELSE /\ stats' = Bump(stats, "failed", 1)
            /\ outcome' = [outcome EXCEPT ![i] = "failed"]
            /\ content' = [content EXCEPT ![i] = NoContent]
            /\ UNCHANGED disk
    /\ UNCHANGED <<cfgvars, media_files, disk0, phase, started, attempt,
                   requests, delays, responses, written, transcoded>>
    /\ UNCHANGED <<wvars, tvars, ovars>>

\* variant: the batch returns as soon as one task has finished
EndBatchFirstDone ==
    /\ phase = "running"
    /\ \E i \in Tasks : pc[i] = "done"
    /\ phase' = "returned"
    /\ UNCHANGED <<cfgvars, media_files, stats, semaphore, holders, disk, disk0,
                   started, pc, attempt, content, requests, delays, responses,
                   outcome, written, transcoded>>
    /\ UNCHANGED <<wvars, tvars, ovars>>

\* asyncio.gather returns, the session is closed, self.stats is returned
EndBatch ==
    /\ phase = "running"
    /\ \A i \in Tasks : pc[i] = "done"
    /\ phase' = "returned"
    /\ UNCHANGED <<cfgvars, media_files, stats, semaphore, holders, disk, disk0,
                   started, pc, attempt, content, requests, delays, responses,
                   outcome, written, transcoded>>
    /\ UNCHANGED <<wvars, tvars, ovars>>

NextDL ==
    \/ \E files \in Batches : BeginBatch(files)
    \/ \E i \in Tasks : Start(i)
    \/ \E i \in Tasks : Acquire(i)
    \/ \E i \in Tasks, r \in Responses : Respond(i, r)
    \/ \E i \in Tasks : WakeUp(i)
    \/ \E i \in Tasks, jpgLen \in 1..MaxLen : Converted(i, jpgLen)
    \/ \E i \in Tasks, ok \in BOOLEAN : Open(i, ok)
    \/ \E i \in Tasks, ok \in BOOLEAN : Write(i, ok)
    \/ EndBatch

-----------------------------------------------------------------------------
(* Tag listing walker *)

PER_PAGE == 25

\* tag ids: "tags=1" is a substring of "tags=14"
TagIds == {1, 14}

\* variant: every offset requests the bare tag query
TagPageUrlBare(tag, offset) == [form |-> "bare", index |-> 0, tags |-> tag]

\* the location of a listing page: offset 0 is the bare tag query
\* <domain>/?tags=<id>, any other offset <domain>/index/<offset>/?tags=<id>
TagPageUrl(tag, offset) ==
    IF offset = 0
    THEN [form |-> "bare", index |-> 0, tags |-> tag]
    ELSE [form |-> "index", index |-> offset, tags |-> tag]

\* offset of a page in get_all_threads_from_tag
PageOffset(pg) == (pg - 1) * PER_PAGE

Max(a, b) == IF a >= b THEN a ELSE b
Min(a, b) == IF a <= b THEN a ELSE b

\* the threads the table of the page holds, in row order: ThreadInfo records
ThreadInfo(url, k) == [url |-> <<url, k>>, thread_id |-> k]

RowsOf(url, n) == [k \in 1..n |-> ThreadInfo(url, k)]

\* what get_threads_from_tag_page returns for a request of url: ([], 0) when
\* _get_page fails, else the rows and the page count read off the pagination
PageResults(url) ==
    { [ok |-> FALSE, threads |-> <<>>, total |-> 0] }
        \cup { [ok |-> TRUE, threads |-> RowsOf(url, n), total |-> t] :
                 n \in 0..MaxThreads, t \in 1..MaxSitePages }

NoneArg == [given |-> FALSE, n |-> 0]

MaxPagesArgs ==
    { NoneArg } \cup { [given |-> TRUE, n |-> k] : k \in (-1)..MaxSitePages }

\* Python truth value of max_pages
Truthy(arg) == arg.given /\ arg.n # 0

\* variant: max_pages is ignored
LimitPagesIgnored(total, arg) == total

\* total_pages after "if max_pages: total_pages = min(total_pages, max_pages)"
LimitPages(total, arg) == IF Truthy(arg) THEN Min(total, arg.n) ELSE total

IdleWalker ==
    /\ tag_id = 0
    /\ max_pages = NoneArg
    /\ wpc = "idle"
    /\ all_threads = <<>>
    /\ total_pages = 0
    /\ page = 0
    /\ fetch_log = <<>>
    /\ site_pages = 0

\* one call get_threads_from_tag_page(tag, offset): the location it requests
\* and what it returns
LogEntry(tag, offset, result) ==
    [offset |-> offset, url |-> TagPageUrl(tag, offset), result |-> result]

\* get_all_threads_from_tag up to the loop: fetch page 1, apply max_pages
\* n is the number of pages the site holds for the tag: the pagination of a
\* page 1 that was fetched shows it
WalkStart(tag, arg, n, result) ==
    /\ wpc = "idle"
    /\ result.ok => result.total = n
    /\ site_pages' = n
    /\ tag_id' = tag
    /\ max_pages' = arg
    /\ fetch_log' = <<LogEntry(tag, 0, result)>>
    /\ all_threads' = result.threads
    /\ total_pages' = LimitPages(result.total, arg)
    /\ page' = 2
    /\ wpc' = "loop"
    /\ UNCHANGED <<dlvars, tvars, ovars>>

\* one iteration of "for page in range(2, total_pages + 1)"
WalkNext(result) ==
    /\ wpc = "loop"
    /\ page <= total_pages
    /\ fetch_log' = Append(fetch_log, LogEntry(tag_id, PageOffset(page), result))
    /\ all_threads' = all_threads \o result.threads
    /\ page' = page + 1
    /\ UNCHANGED <<tag_id, max_pages, total_pages, wpc, site_pages>>
    /\ UNCHANGED <<dlvars, tvars, ovars>>

\* variant: the walk also returns after a page without threads
WalkReturnOnEmpty ==
    /\ wpc = "loop"
    /\ \/ page > total_pages
       \/ fetch_log[Len(fetch_log)].result.threads = <<>>
    /\ wpc' = "done"
    /\ UNCHANGED <<tag_id, max_pages, all_threads, total_pages, page, fetch_log,
                   site_pages>>
    /\ UNCHANGED <<dlvars, tvars, ovars>>

\* the loop is over: return all_threads
WalkReturn ==
    /\ wpc = "loop"
    /\ page > total_pages
    /\ wpc' = "done"
    /\ UNCHANGED <<tag_id, max_pages, all_threads, total_pages, page, fetch_log,
                   site_pages>>
    /\ UNCHANGED <<dlvars, tvars, ovars>>

NextWalker ==
    \/ \E tag \in TagIds, arg \in MaxPagesArgs, n \in 1..MaxSitePages :
          \E result \in PageResults(TagPageUrl(tag, 0)) :
             WalkStart(tag, arg, n, result)
    \/ \E result \in PageResults(TagPageUrl(tag_id, PageOffset(page))) :
          WalkNext(result)
    \/ WalkReturn

-----------------------------------------------------------------------------
(* Thread document transformer.  A reference is                            *)
(*   [scheme, host, dir, name]: scheme "rel" is a path "/storage/<dir>/.."  *)
(*   on the archive's own host, "https" an absolute url; dir "t" is the     *)
(*   preview directory /storage/t/, "none" a path outside /storage/;       *)
(*   scheme "local" with dir "media" is a rewritten reference media/<name>, *)
(*   with dir "resources" a rewritten reference resources/<name>;          *)
(*   name is the last path segment, query what follows a "?" (its          *)
(*   dot-separated segments, <<>> when the url has no query).               *)

Url(scheme, host, dir, name) ==
    [scheme |-> scheme, host |-> host, dir |-> dir, name |-> name,
     query |-> <<>>]

\* the url u followed by "?" and the query q
WithQuery(u, q) == [u EXCEPT !.query = q]

Local(name) == Url("local", "", "media", name)

\* f"resources/{filename}"
LocalResource(name) == Url("local", "", "resources", name)

\* _normalize_url: a path is joined to self.domain, an absolute url is kept
normalize_url(u) ==
    IF u.scheme = "rel"
    THEN WithQuery(Url("https", "main", u.dir, u.name), u.query)
    ELSE u

InStorage(u) == u.dir # "none"          \* '/storage/' in url

\* variant: no path counts as a preview path
IsPreviewNever(u) == FALSE

IsPreview(u) == u.dir = "t"             \* '/storage/t/' in url

\* hashlib.md5(url.encode()).hexdigest()[:16]: one name per url, no dot in it
Md5Hex(u) ==
    IF u.scheme = "rel" THEN
         IF u.dir = "a" THEN (IF u.name = <<>> THEN "md5_rel_a_" ELSE "md5_rel_a_x")
         ELSE IF u.dir = "c" THEN (IF u.name = <<>> THEN "md5_rel_c_" ELSE "md5_rel_c_x")
         ELSE IF u.dir = "t" THEN (IF u.name = <<>> THEN "md5_rel_t_" ELSE "md5_rel_t_x")
         ELSE "md5_rel"
    ELSE IF u.host = "main" THEN
         IF u.dir = "a" THEN (IF u.name = <<>> THEN "md5_main_a_" ELSE "md5_main_a_x")
         ELSE IF u.dir = "c" THEN (IF u.name = <<>> THEN "md5_main_c_" ELSE "md5_main_c_x")
         ELSE IF u.dir = "t" THEN (IF u.name = <<>> THEN "md5_main_t_" ELSE "md5_main_t_x")
         ELSE "md5_main"
    ELSE
         IF u.dir = "a" THEN (IF u.name = <<>> THEN "md5_i_a_" ELSE "md5_i_a_x")
         ELSE IF u.dir = "c" THEN (IF u.name = <<>> THEN "md5_i_c_" ELSE "md5_i_c_x")
         ELSE IF u.dir = "t" THEN (IF u.name = <<>> THEN "md5_i_t_" ELSE "md5_i_t_x")
         ELSE "md5_i"

\* the md5-derived name of a url whose last segment is empty or too short
Md5Name(u) == <<Md5Hex(u)>>

\* not filename or len(filename) < 3
IsShort(name) == name \in { <<>>, <<"x">>, <<"js">> }

\* _extract_filename
extract_filename(u) == IF IsShort(u.name) THEN Md5Name(u) ELSE u.name

\* hashlib.md5(url.encode()).hexdigest()[:12]
Md5Hex12(u) ==
    IF u.host = "google" THEN "md5_google"
    ELSE IF u.host = "yandex" THEN "md5_yandex"
    ELSE "md5_other"

\* _extract_resource_filename: the last path segment; an md5-derived name when
\* it is empty or too short; the resource type is appended to a name without
\* a dot
extract_resource_filename(u, resource_type) ==
    IF IsShort(u.name) THEN <<Md5Hex12(u), resource_type>>
    ELSE IF u.name[Len(u.name)] # resource_type /\ Len(u.name) = 1
    THEN Append(u.name, resource_type)
    ELSE u.name

\* the markers of the script cleanup, looked for anywhere in the src
AnalyticsMarkers == {"google", "yandex", "counter", "analytics", "cloudflare"}

\* 'google' in src or 'yandex' in src or ... or 'cloudflare' in src
ContainsMarker(u) ==
    \/ u.host \in AnalyticsMarkers
    \/ u.dir \in AnalyticsMarkers
    \/ \E k \in 1..Len(u.name) : u.name[k] \in AnalyticsMarkers

\* variant: the reference keeps the original name
get_html_filename_keep(conv, filename) == filename

\* get_html_filename
get_html_filename(conv, filename) ==
    IF ~conv THEN filename
    ELSE IF Lower(SplitExt(filename)) \in CONVERTIBLE_EXTENSIONS
    THEN Append(SplitBase(filename), "jpg")
    ELSE filename

\* the skip list of the image walk: favicon, logo, icon, avatar, button
ChromeWords == {"favicon", "logo", "icon", "avatar", "button"}
IsChrome(u) == \E k \in 1..Len(u.name) : u.name[k] \in ChromeWords

\* filename.endswith('.thumb')
EndsWithThumb(filename) ==
    Len(filename) >= 2 /\ filename[Len(filename)] = "thumb"

RECURSIVE DropThumb(_, _)
\* filename.replace('.thumb', ''): every segment "thumb" after the first goes
DropThumb(filename, k) ==
    IF k > Len(filename) THEN <<>>
    ELSE (IF k >= 2 /\ filename[k] = "thumb" THEN <<>> ELSE <<filename[k]>>)
            \o DropThumb(filename, k + 1)

\* media.filename.rsplit('.', 1)[0]
Stem(filename) ==
    IF Len(filename) >= 2 THEN SubSeq(filename, 1, Len(filename) - 1)
    ELSE filename

\* s + "_thumb"
WithThumbSuffix(s) ==
    CASE s = "v" -> "v_thumb"
      [] s = "w" -> "w_thumb"
      [] s = "h" -> "h_thumb"
      [] s = "png" -> "png_thumb"
      [] s = "mp4" -> "mp4_thumb"
      [] OTHER -> "_thumb"

\* f"{hash_name}_thumb.jpg"
ThumbFilename(hash_name) ==
    IF hash_name = <<>> THEN <<"_thumb", "jpg">>
    ELSE SubSeq(hash_name, 1, Len(hash_name) - 1)
            \o <<WithThumbSuffix(hash_name[Len(hash_name)]), "jpg">>

HasUrl(media, u) == \E k \in 1..Len(media) : media[k].url = u
HasFilename(media, f) == \E k \in 1..Len(media) : media[k].filename = f

\* the media elements thread pages are built from
Elem(tag, ref) == [tag |-> tag, ref |-> ref]

Elems ==
    { Elem("a", Url("rel", "main", "a", <<"h", "png">>)),
      Elem("a", Url("https", "i", "a", <<"h", "png">>)),
      Elem("a", Url("rel", "main", "a", <<"h", "jpg">>)),
      Elem("a", Url("rel", "main", "c", <<"v", "mp4">>)),
      Elem("a", Url("rel", "main", "t", <<"h", "png">>)),
      Elem("img", Url("rel", "main", "t", <<"h", "png">>)),
      Elem("img", Url("rel", "main", "t", <<"v", "thumb">>)),
      Elem("img", Url("rel", "main", "t", <<"w", "thumb">>)),
      Elem("img", Url("rel", "main", "a", <<"h", "png">>)),
      Elem("img", Url("rel", "main", "a", <<"x">>)),
      Elem("img", Url("rel", "main", "a", <<"logo", "png">>)),
      Elem("video", Url("rel", "main", "c", <<"v", "mp4">>)),
      Elem("video", Url("rel", "main", "c", <<"w", "mp4">>)),
      Elem("expand", Url("https", "i", "c", <<"v", "mp4">>)),
      Elem("expand", Url("https", "i", "c", <<"w", "MP4">>)),
      \* a preview named <hash>.png.thumb
      Elem("img", Url("rel", "main", "t", <<"h", "png", "thumb">>)),
      \* a video url with a query, as anchor and as expand_local argument
      Elem("a", WithQuery(Url("https", "i", "c", <<"v", "mp4">>), <<"t", "mp4">>)),
      Elem("expand", WithQuery(Url("https", "i", "c", <<"v", "mp4">>), <<"t", "mp4">>)),
      \* scripts: .../gtag/js and .../analytics.js of a google host,
      \* .../watch.js of a yandex host, /app.js of the archive
      Elem("script", Url("https", "google", "none", <<"js">>)),
      Elem("script", Url("https", "google", "none", <<"analytics", "js">>)),
      Elem("script", Url("https", "yandex", "none", <<"watch", "js">>)),
      Elem("script", Url("rel", "main", "none", <<"app", "js">>)) }

\* an element removed from the tree by decompose()
Decomposed == Elem("none", Url("none", "", "none", <<>>))

ThreadPages == UNION { [1..n -> Elems] : n \in 0..MaxElems }

\* the state of the collection: the document, media_files, original_filenames
Collect(doc, media, originals) ==
    [soup |-> doc, media |-> media, originals |-> originals]

\* the value of the one-element set S (the state after a loop iteration,
\* computed once before the next iteration uses it)
TheOnly(S) == CHOOSE r \in S : TRUE

\* one iteration of "for link in soup.find_all('a', href=True)": element k
AnchorStep(conv, st, k) ==
      LET e == st.soup[k]
          full_url == normalize_url(e.ref)
          filename == extract_filename(full_url)
          file_type == get_file_type(filename)
      IN  IF e.tag = "a" /\ InStorage(e.ref) /\ ~IsPreview(e.ref)
             /\ file_type # "None"
          THEN   Collect([st.soup EXCEPT ![k].ref =
                            Local(IF file_type = "image"
                                  THEN get_html_filename(conv, filename)
                                  ELSE filename)],
                         IF HasUrl(st.media, full_url) THEN st.media
                         ELSE Append(st.media,
                                     MediaFile(full_url, filename, file_type)),
                         st.originals \cup {filename})
          ELSE st

RECURSIVE CollectAnchors(_, _, _)
\* "for link in soup.find_all('a', href=True)", from element k on
CollectAnchors(conv, st, k) ==
    IF k > Len(st.soup) THEN st
    ELSE TheOnly({ CollectAnchors(conv, s, k + 1) : s \in {AnchorStep(conv, st, k)} })

\* the keys of video_hash_to_filename
VideoHashes(media) ==
    { Stem(media[k].filename) :
        k \in { j \in 1..Len(media) : media[j].file_type = "video" } }

\* one iteration of "for img in soup.find_all('img')": element k
ImageStep(conv, hashes, st, k) ==
      LET e == st.soup[k]
          src == e.ref
          filename == extract_filename(src)
          hash_name == DropThumb(filename, 1)
          thumb_filename == ThumbFilename(hash_name)
          full_url == normalize_url(src)
          file_type == get_file_type(filename)
          html_filename == get_html_filename(conv, filename)
      IN  IF ~(e.tag = "img" /\ InStorage(src)) \/ IsChrome(src)
          THEN st
          ELSE IF IsPreview(src) /\ EndsWithThumb(filename)
                  /\ hash_name \in hashes
          THEN \* preview of a collected video
                 Collect([st.soup EXCEPT ![k].ref = Local(thumb_filename)],
                         IF HasFilename(st.media, thumb_filename) THEN st.media
                         ELSE Append(st.media,
                                     MediaFile(full_url, thumb_filename, "image")),
                         st.originals)
          ELSE IF IsPreview(src)
          THEN \* preview of an image: repointed when the original is known
                 Collect(IF filename \in st.originals
                         THEN [st.soup EXCEPT ![k].ref = Local(html_filename)]
                         ELSE st.soup,
                         st.media, st.originals)
          ELSE \* not a preview
                 IF file_type # "None" /\ ~HasUrl(st.media, full_url)
                 THEN Collect([st.soup EXCEPT ![k].ref = Local(html_filename)],
                              Append(st.media,
                                     MediaFile(full_url, filename, file_type)),
                              st.originals \cup {filename})
                 ELSE Collect([st.soup EXCEPT ![k].ref = Local(html_filename)],
                              st.media, st.originals)

RECURSIVE WalkImages(_, _, _, _)
\* "for img in soup.find_all('img')", from element k on
WalkImages(conv, hashes, st, k) ==
    IF k > Len(st.soup) THEN st
    ELSE TheOnly({ WalkImages(conv, hashes, s, k + 1) :
                      s \in {ImageStep(conv, hashes, st, k)} })

\* one iteration of "for video in soup.find_all('video')": element k
VideoStep(st, k) ==
      LET e == st.soup[k]
          full_url == normalize_url(e.ref)
          filename == extract_filename(full_url)
          file_type == get_file_type(filename)
      IN  IF e.tag = "video" /\ InStorage(e.ref) /\ file_type # "None"
             /\ ~HasUrl(st.media, full_url)
          THEN   Collect([st.soup EXCEPT ![k].ref = Local(filename)],
                         Append(st.media,
                                MediaFile(full_url, filename, file_type)),
                         st.originals)
          ELSE st

RECURSIVE WalkVideos(_, _)
\* "for video in soup.find_all('video')", from element k on
WalkVideos(st, k) ==
    IF k > Len(st.soup) THEN st
    ELSE TheOnly({ WalkVideos(s, k + 1) : s \in {VideoStep(st, k)} })

\* a + "?" + b
JoinQuery(a, b) ==
    CASE a = "mp4" /\ b = "t" -> "mp4?t"
      [] OTHER -> "?"

\* video_url.split('/')[-1]: the tail of the url, its query included
UrlTail(u) ==
    IF u.query = <<>> THEN u.name
    ELSE IF u.name = <<>> THEN <<JoinQuery("", u.query[1])>> \o Tail(u.query)
    ELSE SubSeq(u.name, 1, Len(u.name) - 1)
            \o <<JoinQuery(u.name[Len(u.name)], u.query[1])>>
            \o Tail(u.query)

\* the regex of the expand_local scan: an absolute url ending in .mp4, .webm
\* or .mov, in any case
IsExpandVideoUrl(u) ==
    /\ u.scheme = "https"
    /\ Len(UrlTail(u)) >= 2
    /\ Lower(UrlTail(u)[Len(UrlTail(u))]) \in {"mp4", "webm", "mov"}

\* one iteration of "for video_url in video_urls": element k
ExpandStep(st, k) ==
      LET e == st.soup[k]
          filename == UrlTail(e.ref)
      IN  IF e.tag = "expand" /\ IsExpandVideoUrl(e.ref)
             /\ ~HasFilename(st.media, filename)
          THEN   Collect(st.soup,
                         Append(st.media, MediaFile(e.ref, filename, "video")),
                         st.originals)
          ELSE st

RECURSIVE ScanExpandLocal(_, _)
\* "for video_url in video_urls", from element k on
ScanExpandLocal(st, k) ==
    IF k > Len(st.soup) THEN st
    ELSE TheOnly({ ScanExpandLocal(s, k + 1) : s \in {ExpandStep(st, k)} })

Now == Collect(soup, collected, original_filenames)

ResourceFile(u, f, t) == [url |-> u, filename |-> f, resource_type |-> t]

RECURSIVE ScriptResources(_, _)
\* "for script in soup.find_all('script', src=True)", from element k on: the
\* ResourceFile entries appended to resource_files
ScriptResources(doc, k) ==
    IF k > Len(doc) THEN <<>>
    ELSE (IF doc[k].tag = "script"
          THEN <<ResourceFile(normalize_url(doc[k].ref),
                              extract_resource_filename(normalize_url(doc[k].ref), "js"),
                              "js")>>
          ELSE <<>>)
            \o ScriptResources(doc, k + 1)

\* the same loop: script['src'] = f"resources/{filename}"
RewriteScripts(doc) ==
    [k \in 1..Len(doc) |->
        IF doc[k].tag = "script"
        THEN Elem("script",
                  LocalResource(extract_resource_filename(normalize_url(doc[k].ref), "js")))
        ELSE doc[k]]

\* the script cleanup: a script whose src, as it is by then, holds a marker
\* is removed from the tree
StripAnalytics(doc) ==
    [k \in 1..Len(doc) |->
        IF doc[k].tag = "script" /\ ContainsMarker(doc[k].ref)
        THEN Decomposed
        ELSE doc[k]]

IdleTransformer ==
    /\ tpc = "idle"
    /\ soup = <<>>
    /\ soup0 = <<>>
    /\ resource_files = <<>>
    /\ collected = <<>>
    /\ original_filenames = {}
    /\ video_hash_to_filename = {}

\* parse_thread: _get_page fails, or returns the document
FetchThread(ok, doc) ==
    /\ tpc = "idle"
    /\ IF ok THEN tpc' = "resources" /\ soup' = doc /\ soup0' = doc
             ELSE tpc' = "failed" /\ soup' = soup /\ soup0' = soup0
    /\ UNCHANGED <<resource_files, collected, original_filenames,
                   video_hash_to_filename>>
    /\ UNCHANGED <<dlvars, wvars, ovars>>

\* the script files are collected and their src rewritten to resources/
ResourcePass ==
    /\ tpc = "resources"
    /\ resource_files' = ScriptResources(soup, 1)
    /\ soup' = RewriteScripts(soup)
    /\ tpc' = "anchors"
    /\ UNCHANGED <<soup0, collected, original_filenames, video_hash_to_filename>>
    /\ UNCHANGED <<dlvars, wvars, ovars>>

\* originals from the anchors, then the video hash lookup
AnchorPass ==
    /\ tpc = "anchors"
    /\ LET st == CollectAnchors(CONVERT_IMAGES_TO_JPG, Now, 1) IN
         /\ soup' = st.soup
         /\ collected' = st.media
         /\ original_filenames' = st.originals
         /\ video_hash_to_filename' = VideoHashes(st.media)
    /\ tpc' = "images"
    /\ UNCHANGED <<soup0, resource_files>>
    /\ UNCHANGED <<dlvars, wvars, ovars>>

ImagePass ==
    /\ tpc = "images"
    /\ LET st == WalkImages(CONVERT_IMAGES_TO_JPG, video_hash_to_filename, Now, 1) IN
         /\ soup' = st.soup
         /\ collected' = st.media
         /\ original_filenames' = st.originals
    /\ tpc' = "videos"
    /\ UNCHANGED <<soup0, resource_files, video_hash_to_filename>>
    /\ UNCHANGED <<dlvars, wvars, ovars>>

VideoPass ==
    /\ tpc = "videos"
    /\ LET st == WalkVideos(Now, 1) IN
         /\ soup' = st.soup
         /\ collected' = st.media
    /\ tpc' = "expand"
    /\ UNCHANGED <<soup0, resource_files, original_filenames,
                   video_hash_to_filename>>
    /\ UNCHANGED <<dlvars, wvars, ovars>>

\* the expand_local scan
ExpandPass ==
    /\ tpc = "expand"
    /\ collected' = ScanExpandLocal(Now, 1).media
    /\ tpc' = "cleanup"
    /\ UNCHANGED <<soup, soup0, resource_files, original_filenames,
                   video_hash_to_filename>>
    /\ UNCHANGED <<dlvars, wvars, ovars>>

\* the cleanup of the tree; parse_thread then returns the document,
\* media_files and resource_files
CleanupPass ==
    /\ tpc = "cleanup"
    /\ soup' = StripAnalytics(soup)
    /\ tpc' = "returned"
    /\ UNCHANGED <<soup0, resource_files, collected, original_filenames,
                   video_hash_to_filename>>
    /\ UNCHANGED <<dlvars, wvars, ovars>>

NextTransformer ==
    \/ /\ tpc = "idle"
       /\ \E ok \in BOOLEAN, doc \in ThreadPages : FetchThread(ok, doc)
    \/ ResourcePass
    \/ AnchorPass
    \/ ImagePass
    \/ VideoPass
    \/ ExpandPass
    \/ CleanupPass

-----------------------------------------------------------------------------
(* Folder naming.  A date string is the sequence of its characters; a folder *)
(* name is the sequence of the pieces it is formatted from.                  *)

DateChars == {"1", "2", "/", "x"}

DateStrings == UNION { [1..n -> DateChars] : n \in 0..MaxDateLen }

\* thread ids: the digits _extract_thread_id found, "" when it found none
ThreadIds == {"1122323", ""}

IsDigit(c) == c \in {"0", "1", "2", "3", "4", "5", "6", "7", "8", "9"}

\* (\d{2})/(\d{2})/(\d{2}) matches at position k of s
MatchAt(s, k) ==
    /\ k >= 1
    /\ k + 7 <= Len(s)
    /\ IsDigit(s[k]) /\ IsDigit(s[k + 1]) /\ s[k + 2] = "/"
    /\ IsDigit(s[k + 3]) /\ IsDigit(s[k + 4]) /\ s[k + 5] = "/"
    /\ IsDigit(s[k + 6]) /\ IsDigit(s[k + 7])

\* variant: the pattern is looked for at the start of the string only
SearchAtStart(s, k) == IF MatchAt(s, 1) THEN 1 ELSE 0

RECURSIVE SearchFrom(_, _)
\* re.search: the position of the leftmost match at or after k, 0 if none
SearchFrom(s, k) ==
    IF k + 7 > Len(s) THEN 0
    ELSE IF MatchAt(s, k) THEN k
    ELSE SearchFrom(s, k + 1)

\* _parse_post_time_to_folder
parse_post_time_to_folder(date_str, id) ==
    LET k == SearchFrom(date_str, 1) IN
    IF k > 0
    THEN << date_str[k], date_str[k + 1], ".",
            date_str[k + 3], date_str[k + 4], ".",
            date_str[k + 6], date_str[k + 7], "_", id >>
    ELSE << "thread_", id >>

\* get_folder_name
get_folder_name(date, id) == parse_post_time_to_folder(date, id)

IdleFolder ==
    /\ thread_date = <<>>
    /\ thread_id = ""
    /\ folder_name = <<>>

\* one call parser.get_folder_name(thread_date, thread_id)
GetFolderName(date, id) ==
    /\ folder_name = <<>>
    /\ thread_date' = date
    /\ thread_id' = id
    /\ folder_name' = get_folder_name(date, id)
    /\ UNCHANGED <<dlvars, wvars, tvars, mvars, bvars, xvars>>

NextFolder ==
    /\ folder_name = <<>>
    /\ \E date \in DateStrings, id \in ThreadIds : GetFolderName(date, id)

-----------------------------------------------------------------------------
(* Watch-list.  An entry is [item_type, item_id]; the url, the name and the *)
(* timestamps of a MonitorItem play no part in what is accepted.  The file   *)
(* monitor_list.json is [readable, items]: it is unreadable while it does    *)
(* not exist and after a write that failed half-way.                         *)

MAX_MONITOR_ITEMS == 20

MonitorItem(t, id) == [item_type |-> t, item_id |-> id]

NoMonitorFile == [readable |-> FALSE, items |-> <<>>]

\* load_monitor_list: [] when the file is missing or cannot be parsed
load_monitor_list(file) == IF file.readable THEN file.items ELSE <<>>

\* save_monitor_list: the exception of a failed save is swallowed; the file
\* is as it was when it could not be opened, unreadable when the dump failed
save_monitor_list(file, items, result) ==
    CASE result = "ok" -> [readable |-> TRUE, items |-> items]
      [] result = "open_failed" -> file
      [] OTHER -> NoMonitorFile

SaveResults == {"ok", "open_failed", "write_failed"}

\* any(i.item_id == id and i.item_type == t for i in items)
InMonitor(items, t, id) ==
    \E k \in 1..Len(items) : items[k].item_id = id /\ items[k].item_type = t

\* variant: the list is never full
IsFullNever(items) == FALSE

\* len(items) >= MAX_MONITOR_ITEMS
IsFull(items) == Len(items) >= MAX_MONITOR_ITEMS

\* the ids and kinds typed in are taken from one enumeration:
\* thread 1, tag 1, thread 2, tag 2, ...
Pair(n) == MonitorItem(IF n % 2 = 1 THEN "thread" ELSE "tag", (n + 1) \div 2)

PairIndex(item) ==
    2 * item.item_id - (IF item.item_type = "thread" THEN 1 ELSE 0)

LastPairIndex(items) ==
    IF items = <<>> THEN 0
    ELSE CHOOSE n \in { PairIndex(items[k]) : k \in 1..Len(items) } :
            \A k \in 1..Len(items) : PairIndex(items[k]) <= n

\* what is typed in to add_to_monitor: the first or the last stored entry
\* again, or the next entry of the enumeration
AddPairs(items) ==
    (IF items = <<>> THEN {} ELSE { items[1], items[Len(items)] })
        \cup { Pair(n) : n \in { m \in {LastPairIndex(items) + 1} :
                                    m <= 2 * MaxMonitorId } }

\* the menu choice and the text typed in: choice '1' with a thread url (not
\* starting with http, without /thread/<id>, or well-formed), choice '2' with
\* a tag (digits, a url with tags=<id>, or neither), '0', or anything else
AddInputs(items) ==
    { [choice |-> c, form |-> "", id |-> 0] : c \in {"0", "9"} }
        \cup { [choice |-> "1", form |-> f, id |-> 0] : f \in {"nohttp", "noid"} }
        \cup { [choice |-> "2", form |-> "bad", id |-> 0] }
        \cup { [choice |-> "1", form |-> "ok", id |-> q.item_id] :
                  q \in { r \in AddPairs(items) : r.item_type = "thread" } }
        \cup { [choice |-> "2", form |-> f, id |-> q.item_id] :
                  f \in {"digits", "url"},
                  q \in { r \in AddPairs(items) : r.item_type = "tag" } }

\* the list add_to_monitor saves, or the list it loaded when it returns
\* before saving
add_to_monitor(items, input) ==
    IF IsFull(items) THEN items
    ELSE IF input.choice = "1"
    THEN IF input.form # "ok" THEN items
         ELSE IF InMonitor(items, "thread", input.id) THEN items
         ELSE Append(items, MonitorItem("thread", input.id))
    ELSE IF input.choice = "2"
    THEN IF input.form = "bad" THEN items
         ELSE IF InMonitor(items, "tag", input.id) THEN items
         ELSE Append(items, MonitorItem("tag", input.id))
    ELSE items

\* items.pop(idx)
Pop(items, idx) ==
    SubSeq(items, 1, idx - 1) \o SubSeq(items, idx + 1, Len(items))

\* the list remove_from_monitor saves, or the list it loaded when it returns
\* before saving; choice 0 cancels, any other number out of 1..len is refused
remove_from_monitor(items, choice) ==
    IF items = <<>> THEN items
    ELSE IF choice = 0 THEN items
    ELSE IF 1 <= choice /\ choice <= Len(items) THEN Pop(items, choice)
    ELSE items

NoMonitorOp == [op |-> "none", choice |-> "", form |-> "", id |-> 0]

IdleMonitor ==
    /\ monitor_file = NoMonitorFile
    /\ monitor_op = NoMonitorOp

\* one run of add_to_monitor
AddToMonitor(input, result) ==
    LET items == load_monitor_list(monitor_file)
        saved == add_to_monitor(items, input)
    IN  /\ monitor_op' = [op |-> "add", choice |-> input.choice,
                          form |-> input.form, id |-> input.id]
        /\ monitor_file' = IF saved = items THEN monitor_file
                           ELSE save_monitor_list(monitor_file, saved, result)
        /\ UNCHANGED <<dlvars, wvars, tvars, fvars, bvars, xvars>>

\* one run of remove_from_monitor
RemoveFromMonitor(choice, result) ==
    LET items == load_monitor_list(monitor_file)
        saved == remove_from_monitor(items, choice)
    IN  /\ monitor_op' = [op |-> "remove", choice |-> "", form |-> "",
                          id |-> choice]
        /\ monitor_file' = IF saved = items THEN monitor_file
                           ELSE save_monitor_list(monitor_file, saved, result)
        /\ UNCHANGED <<dlvars, wvars, tvars, fvars, bvars, xvars>>

\* the entries offered for removal: the first, the last, 0 and one too many
RemoveChoices(items) == {0, 1, Len(items), Len(items) + 1}

NextMonitor ==
    \/ \E input \in AddInputs(load_monitor_list(monitor_file)),
          result \in SaveResults : AddToMonitor(input, result)
    \/ \E choice \in RemoveChoices(load_monitor_list(monitor_file)),
          result \in SaveResults : RemoveFromMonitor(choice, result)

-----------------------------------------------------------------------------
(* Bulk archival of a tag: the menu flow download_by_tag_interactive and the *)
(* --tag command line flow.  A listed thread is its id; what one iteration   *)
(* does to the disk is the transformer's and the download engine's work, and *)
(* is an outcome here: parse_thread returned no html, something in the body *)
(* raised an Exception, or the thread was saved.                             *)

Listings == UNION { [1..n -> 1..MaxListed] : n \in 0..MaxListed }

ThreadOutcomes == {"no_html", "raised", "ok"}

RECURSIVE Reversed(_)
\* list(reversed(threads))
Reversed(q) ==
    IF q = <<>> THEN <<>> ELSE Append(Reversed(Tail(q)), Head(q))

\* variant: an exception raised by the body of an iteration leaves the loop
LoopStopsOnRaise(o) == o # "raised"

\* the try/except Exception around the body of an iteration, and the
\* continue of a failed fetch: the loop goes on to the next thread
LoopContinues(o) == TRUE

IdleBulk ==
    /\ bulk_flow = "none"
    /\ listing = <<>>
    /\ threads = <<>>
    /\ bpc = "idle"
    /\ thread_index = 0
    /\ successful = 0
    /\ failed = 0
    /\ attempted = <<>>

\* the flow up to its loop: the listing is fetched; the flow returns when
\* it is empty, and the menu flow when the user does not confirm
BulkStart(flow, result, reverse_order, confirm) ==
    /\ bpc = "idle"
    /\ flow = "cli" => ~reverse_order /\ confirm
    /\ bulk_flow' = flow
    /\ listing' = result
    /\ IF result = <<>>
       THEN /\ bpc' = "returned"
            /\ threads' = result
       ELSE /\ threads' = IF reverse_order THEN Reversed(result) ELSE result
            /\ bpc' = IF confirm THEN "loop" ELSE "returned"
    /\ UNCHANGED <<thread_index, successful, failed, attempted>>
    /\ UNCHANGED <<dlvars, wvars, tvars, fvars, mvars, xvars>>

\* one iteration of the loop over threads
ArchiveThread(o) ==
    /\ bpc = "loop"
    /\ thread_index < Len(threads)
    /\ attempted' = Append(attempted, [thread |-> threads[thread_index + 1],
                                       outcome |-> o])
    /\ successful' = IF o = "ok" THEN successful + 1 ELSE successful
    /\ failed' = IF o # "ok" /\ bulk_flow = "interactive"
                 THEN failed + 1 ELSE failed
    /\ IF LoopContinues(o)
       THEN /\ thread_index' = thread_index + 1
            /\ bpc' = bpc
       ELSE /\ thread_index' = thread_index
            /\ bpc' = "raised"
    /\ UNCHANGED <<bulk_flow, listing, threads>>
    /\ UNCHANGED <<dlvars, wvars, tvars, fvars, mvars, xvars>>

\* the loop is exhausted: the summary is printed
BulkSummary ==
    /\ bpc = "loop"
    /\ thread_index = Len(threads)
    /\ bpc' = "done"
    /\ UNCHANGED <<bulk_flow, listing, threads, thread_index, successful,
                   failed, attempted>>
    /\ UNCHANGED <<dlvars, wvars, tvars, fvars, mvars, xvars>>

NextBulk ==
    \/ /\ bpc = "idle"
       /\ \E flow \in {"interactive", "cli"}, result \in Listings,
             reverse_order \in BOOLEAN, confirm \in BOOLEAN :
               BulkStart(flow, result, reverse_order, confirm)
    \/ \E o \in ThreadOutcomes : ArchiveThread(o)
    \/ BulkSummary

-----------------------------------------------------------------------------
(* The page count of a listing page.  An anchor is what the scan reads of    *)
(* it: the id after tags= in its href (0: the href has no tags=), the number *)
(* of /index/<number>/? in its href (-1: none) and its text when that is all *)
(* digits (-1: it is not).                                                   *)

Link(tags, offset, label) == [tags |-> tags, offset |-> offset, label |-> label]

Links ==
    { Link(t, o, l) : t \in {0, 1, 14}, o \in {-1, 0, 25, 30, 50},
                      l \in {-1, 0, 2, 3} }

LinkLists == UNION { [1..n -> Links] : n \in 0..MaxLinks }

RECURSIVE IsDigitsPrefix(_, _)
\* the decimal digits of t start the decimal digits of u
IsDigitsPrefix(t, u) ==
    IF u = t THEN TRUE
    ELSE IF u < 10 THEN FALSE
    ELSE IsDigitsPrefix(t, u \div 10)

\* f'tags={tag_id}' in href: the text tags=<id> occurs in the href, also as
\* the start of the tags= of a longer id
HrefHasTag(tag, a) == a.tags # 0 /\ IsDigitsPrefix(tag, a.tags)

\* one iteration of "for link in all_links"
ScanLink(tag, total, a) ==
    LET afterOffset ==
            IF HrefHasTag(tag, a) /\ a.offset >= 0
            THEN Max(total, (a.offset \div PER_PAGE) + 1) ELSE total
    IN  IF HrefHasTag(tag, a) /\ a.label >= 0
        THEN Max(afterOffset, a.label) ELSE afterOffset

RECURSIVE ScanLinks(_, _, _, _)
\* "for link in all_links", from anchor k on
ScanLinks(tag, total, links, k) ==
    IF k > Len(links) THEN total
    ELSE ScanLinks(tag, ScanLink(tag, total, links[k]), links, k + 1)

\* the total_pages of get_threads_from_tag_page for a page that was fetched
infer_total_pages(tag, links) == ScanLinks(tag, 1, links, 1)

IdlePageCount ==
    /\ links_tag = 0
    /\ all_links = <<>>
    /\ inferred_total = 0

\* one call of get_threads_from_tag_page on a fetched page with these anchors
InferTotal(tag, links) ==
    /\ inferred_total = 0
    /\ links_tag' = tag
    /\ all_links' = links
    /\ inferred_total' = infer_total_pages(tag, links)
    /\ UNCHANGED <<dlvars, wvars, tvars, fvars, mvars, bvars, svars, avars>>

NextPageCount ==
    /\ inferred_total = 0
    /\ \E tag \in TagIds, links \in LinkLists : InferTotal(tag, links)

-----------------------------------------------------------------------------
(* Folder name sanitizing.  A name is the sequence of its runs of equal     *)
(* characters, [ch, n] standing for n times the character ch.                *)

MAX_FOLDER_NAME == 200

Run(ch, n) == [ch |-> ch, n |-> n]

\* the characters of the class [<>:"/\\|?*]
IllegalChars == {"<", ">", ":", "\"", "/", "\\", "|", "?", "*"}

RawNames ==
    UNION { [1..k -> { Run(ch, n) : ch \in {"a", ".", " ", "/", "?"},
                                    n \in {1, MAX_FOLDER_NAME - 1,
                                           MAX_FOLDER_NAME} }] :
              k \in 0..MaxRuns }

\* re.sub(r'[<>:"/\\|?*]', '_', name)
ReplaceIllegal(name) ==
    [k \in 1..Len(name) |->
        IF name[k].ch \in IllegalChars THEN Run("_", name[k].n) ELSE name[k]]

RECURSIVE StripLeft(_)
StripLeft(name) ==
    IF name = <<>> THEN name
    ELSE IF Head(name).ch \in {" ", "."} THEN StripLeft(Tail(name))
    ELSE name

RECURSIVE StripRight(_)
StripRight(name) ==
    IF name = <<>> THEN name
    ELSE IF name[Len(name)].ch \in {" ", "."}
    THEN StripRight(SubSeq(name, 1, Len(name) - 1))
    ELSE name

\* name.strip(' .')
Strip(name) == StripRight(StripLeft(name))

RECURSIVE Truncate(_, _)
\* name[:limit]
Truncate(name, limit) ==
    IF name = <<>> \/ limit = 0 THEN <<>>
    ELSE IF Head(name).n <= limit
    THEN <<Head(name)>> \o Truncate(Tail(name), limit - Head(name).n)
    ELSE <<Run(Head(name).ch, limit)>>

\* the fallback name 'thread'
ThreadName ==
    << Run("t", 1), Run("h", 1), Run("r", 1), Run("e", 1), Run("a", 1),
       Run("d", 1) >>

\* sanitize_folder_name
sanitize_folder_name(name) ==
    LET stripped == Strip(ReplaceIllegal(name)) IN
    IF stripped # <<>> THEN Truncate(stripped, MAX_FOLDER_NAME) ELSE ThreadName

IdleSanitize ==
    /\ raw_name = <<>>
    /\ safe_name = <<>>

\* one call sanitize_folder_name(name)
SanitizeFolderName(name) ==
    /\ safe_name = <<>>
    /\ raw_name' = name
    /\ safe_name' = sanitize_folder_name(name)
    /\ UNCHANGED <<dlvars, wvars, tvars, fvars, mvars, bvars, pgvars, avars>>

NextSanitize ==
    /\ safe_name = <<>>
    /\ \E name \in RawNames : SanitizeFolderName(name)

-----------------------------------------------------------------------------
(* The archival of one thread (main.py: download_single_thread_interactive). *)
(* parse_thread is the transformer above and download_media_sync the batch   *)
(* above; the media directory of the thread folder is disk.                  *)

\* the answers to "Введите URL треда": cancel, not a url, a url
ThreadUrls == {"q", "ftp", "http"}

\* the elements of the archived pages: their file names are names of the
\* media directory
ArchiveElems ==
    { Elem("a", Url("rel", "main", "a", <<"a", "png">>)),
      Elem("a", Url("rel", "main", "a", <<"a", "jpg">>)),
      Elem("a", Url("rel", "main", "c", <<"b", "mp4">>)),
      Elem("img", Url("rel", "main", "t", <<"a", "png">>)),
      Elem("script", Url("rel", "main", "none", <<"app", "js">>)) }

ArchivePages == UNION { [1..n -> ArchiveElems] : n \in 0..MaxArchiveElems }

\* nothing created: no thread folder, no thread.html, no resource requested
NoThreadDir ==
    [made |-> FALSE, saved |-> FALSE, html |-> <<>>, resources |-> {}]

IdleArchive ==
    /\ apc = "idle"
    /\ thread_dir = NoThreadDir

\* variant: the flow goes on whatever parse_thread returned
HtmlMissingNever == FALSE

\* "not html_content": parse_thread returned None for the document
HtmlMissing == tpc = "failed"

\* the url is read; 'q' and a string that does not start with http return
ArchiveStart(thread_url) ==
    /\ apc = "idle"
    /\ apc' = IF thread_url = "http" THEN "parsing" ELSE "returned"
    /\ UNCHANGED thread_dir
    /\ UNCHANGED <<dlvars, wvars, tvars, fvars, mvars, bvars, pgvars, svars>>

\* parse_thread has returned: without a document the flow returns; with one
\* the folders are made, every resource file is requested and thread.html is
\* written
ThreadParsed ==
    /\ apc = "parsing"
    /\ tpc \in {"failed", "returned"}
    /\ IF HtmlMissing
       THEN /\ apc' = "returned"
            /\ UNCHANGED thread_dir
       ELSE /\ apc' = "saved"
            /\ thread_dir' =
                 [made |-> TRUE, saved |-> TRUE, html |-> soup,
                  resources |-> { resource_files[k].filename :
                                    k \in 1..Len(resource_files) }]
    /\ UNCHANGED <<dlvars, wvars, tvars, fvars, mvars, bvars, pgvars, svars>>

\* "if media_files:" is false, or download_media_sync has returned
ArchiveReturn ==
    /\ apc = "saved"
    /\ \/ collected = <<>> /\ phase = "idle"
       \/ phase = "returned"
    /\ apc' = "returned"
    /\ UNCHANGED thread_dir
    /\ UNCHANGED <<dlvars, wvars, tvars, fvars, mvars, bvars, pgvars, svars>>

NextArchive ==
    \/ \E thread_url \in ThreadUrls : ArchiveStart(thread_url)
    \/ /\ apc = "parsing"
       /\ tpc = "idle"
       /\ \E ok \in BOOLEAN, doc \in ArchivePages : FetchThread(ok, doc)
    \/ ResourcePass
    \/ AnchorPass
    \/ ImagePass
    \/ VideoPass
    \/ ExpandPass
    \/ CleanupPass
    \/ ThreadParsed
    \/ /\ apc = "saved"
       /\ collected # <<>>
       /\ BeginBatch(collected)
    \/ \E i \in Tasks : Start(i)
    \/ \E i \in Tasks : Acquire(i)
    \/ \E i \in Tasks, r \in Responses : Respond(i, r)
    \/ \E i \in Tasks : WakeUp(i)
    \/ \E i \in Tasks, jpgLen \in 1..MaxLen : Converted(i, jpgLen)
    \/ \E i \in Tasks, ok \in BOOLEAN : Open(i, ok)
    \/ \E i \in Tasks, ok \in BOOLEAN : Write(i, ok)
    \/ EndBatch
    \/ ArchiveReturn

-----------------------------------------------------------------------------
(* Specifications *)

IdleDL ==
    /\ InitDL
    /\ CONVERT_IMAGES_TO_JPG
    /\ max_concurrent = 1
    /\ max_retries = 1
    /\ \A f \in Names : disk[f] = NoFile

\* nothing of main.py's flows has run
IdleOrchestration ==
    /\ IdleFolder /\ IdleMonitor /\ IdleBulk /\ IdlePageCount /\ IdleSanitize
    /\ IdleArchive

\* the download engine alone
InitDownload == InitDL /\ IdleWalker /\ IdleTransformer /\ IdleOrchestration
SpecDownload == InitDownload /\ [][NextDL]_vars

\* a step of a started batch: the first step of a task, a slot handed to a
\* waiting task, or the return of a request, a sleep, a conversion, an open
\* or a write
BatchStep ==
    \/ \E i \in Tasks : Start(i)
    \/ \E i \in Tasks : Acquire(i)
    \/ \E i \in Tasks, r \in Responses : Respond(i, r)
    \/ \E i \in Tasks : WakeUp(i)
    \/ \E i \in Tasks, jpgLen \in 1..MaxLen : Converted(i, jpgLen)
    \/ \E i \in Tasks, ok \in BOOLEAN : Open(i, ok)
    \/ \E i \in Tasks, ok \in BOOLEAN : Write(i, ok)
    \/ EndBatch

\* the download engine under a fair event loop: a task that can run is run,
\* and every request, sleep, conversion, open and write returns
InitDownloadFair ==
    /\ InitDL
    /\ CONVERT_IMAGES_TO_JPG
    /\ max_retries <= MaxRetriesFair
    /\ \A f \in Names : disk[f] = NoFile
    /\ IdleWalker
    /\ IdleTransformer
    /\ IdleOrchestration
SpecDownloadFair ==
    InitDownloadFair /\ [][NextDL]_vars /\ WF_vars(BatchStep)

\* the tag listing walker alone
InitWalker == IdleDL /\ IdleWalker /\ IdleTransformer /\ IdleOrchestration
SpecWalker == InitWalker /\ [][NextWalker]_vars

\* the transformer alone, with conversion on or off
InitTransformer ==
    /\ InitDL
    /\ max_concurrent = 1
    /\ max_retries = 1
    /\ \A f \in Names : disk[f] = NoFile
    /\ IdleWalker
    /\ IdleTransformer
    /\ IdleOrchestration
SpecTransformer == InitTransformer /\ [][NextTransformer]_vars

\* the naming of a thread's folder alone
InitFolder ==
    IdleDL /\ IdleWalker /\ IdleTransformer /\ IdleOrchestration
SpecFolder == InitFolder /\ [][NextFolder]_vars

\* the watch-list alone, from a missing monitor_list.json
InitMonitor ==
    IdleDL /\ IdleWalker /\ IdleTransformer /\ IdleOrchestration
SpecMonitor == InitMonitor /\ [][NextMonitor]_vars

\* the page count of one listing page alone
InitPageCount ==
    IdleDL /\ IdleWalker /\ IdleTransformer /\ IdleOrchestration
SpecPageCount == InitPageCount /\ [][NextPageCount]_vars

\* the sanitizing of one folder name alone
InitSanitize ==
    IdleDL /\ IdleWalker /\ IdleTransformer /\ IdleOrchestration
SpecSanitize == InitSanitize /\ [][NextSanitize]_vars

\* the bulk archival of a tag alone
InitBulk ==
    IdleDL /\ IdleWalker /\ IdleTransformer /\ IdleOrchestration
SpecBulk == InitBulk /\ [][NextBulk]_vars

\* the archival of one thread, into a media directory that is empty or holds
\* a file of an earlier run, with conversion on or off
InitArchive ==
    /\ InitDL
    /\ IdleWalker
    /\ IdleTransformer
    /\ IdleOrchestration
SpecArchive == InitArchive /\ [][NextArchive]_vars

-----------------------------------------------------------------------------
(* Properties of the download engine *)

RECURSIVE SumOver(_, _)
\* sum of f[i] over the set S
SumOver(f, S) ==
    IF S = {} THEN 0
    ELSE LET x == CHOOSE y \in S : TRUE IN f[x] + SumOver(f, S \ {x})

Count(S) == Cardinality(S)

\* tasks that hold a slot and have no terminal outcome yet
InFlight == { i \in Tasks : pc[i] \in {"get", "sleep", "convert", "open", "write"} }

\* C1: at every moment of a batch at most max_concurrent assets are fetching,
\* sleeping between retries, transcoding or writing, all of them hold a slot,
\* and an asset with a request issued or in flight got its slot first.
C1_AtMostLimitInFlight ==
    /\ Count(InFlight) <= max_concurrent
    /\ InFlight \subseteq holders
    /\ Count(holders) + semaphore = (IF phase = "idle" THEN 0 ELSE max_concurrent)
    /\ \A i \in Tasks : pc[i] \in {"new", "wait"} => requests[i] = 0

C1_Witness ==
    /\ Count(InFlight) = max_concurrent
    /\ \E i \in Tasks : pc[i] = "wait"
    /\ \E i \in Tasks : pc[i] = "sleep"

\* the claim's notion of "already there": the original name, or the same base
\* with .jpg for a .png/.webp/.bmp name, in the directory before the batch
ExistsBefore(i) ==
    LET f == media_files[i].filename IN
    \/ disk0[f] # NoFile
    \/ /\ Lower(SplitExt(f)) \in {"png", "webp", "bmp"}
       /\ disk0[Append(SplitBase(f), "jpg")] # NoFile

\* C2: an asset whose file exists under its original or its .jpg name, with
\* conversion on or off, sends no request, writes nothing and is counted once,
\* as skipped.
C2_ExistingIsSkipped ==
    /\ \A i \in Tasks : ExistsBefore(i) =>
          /\ requests[i] = 0
          /\ written[i] = <<>>
          /\ pc[i] \in {"new", "done"}
          /\ pc[i] = "done" => outcome[i] = "skipped"
    /\ phase = "returned" =>
          stats.skipped = Count({ i \in Tasks : ExistsBefore(i) })

C2_Witness ==
    /\ phase = "returned"
    /\ ~CONVERT_IMAGES_TO_JPG
    /\ \E i \in Tasks :
          /\ disk0[media_files[i].filename] = NoFile
          /\ ExistsBefore(i)
          /\ outcome[i] = "skipped"
    /\ \E i \in Tasks : outcome[i] = "completed"

\* C3: a 404 is the last response of its fetch: no attempt and no sleep
\* follows it, and a first response of 404 means exactly one attempt.
C3_NotFoundEndsFetch ==
    \A i \in Tasks : \A k \in 1..Len(responses[i]) :
        responses[i][k] = "notfound" =>
            /\ k = Len(responses[i])
            /\ requests[i] = k
            /\ Len(delays[i]) = k - 1
            /\ pc[i] = "done"
            /\ outcome[i] = "failed"

C3_Witness ==
    \E i \in Tasks :
        /\ responses[i] = <<"notfound">>
        /\ max_retries > 1
        /\ phase = "returned"

\* C4: a fetch whose attempts all end in a transient error makes exactly
\* max_retries attempts and fails; the sleep before attempt k+1 is k times the
\* base delay, so the delays grow strictly, and none follows the last attempt.
C4_TransientRetriedWithBackoff ==
    \A i \in Tasks :
        /\ \A k \in 1..Len(delays[i]) : delays[i][k] = k * BaseDelay
        /\ \A k \in 2..Len(delays[i]) : delays[i][k] > delays[i][k - 1]
        /\ Len(delays[i]) <= max_retries - 1
        /\ (/\ pc[i] = "done"
            /\ responses[i] # <<>>
            /\ \A k \in 1..Len(responses[i]) : responses[i][k] = "transient")
           => /\ requests[i] = max_retries
              /\ Len(responses[i]) = max_retries
              /\ Len(delays[i]) = max_retries - 1
              /\ outcome[i] = "failed"

C4_Witness ==
    \E i \in Tasks :
        /\ pc[i] = "done"
        /\ responses[i] = <<"transient", "transient", "transient">>
        /\ delays[i] = <<1, 2>>

Terminal(st) == st.completed + st.failed + st.skipped

\* C5: when the batch returns every asset has exactly one terminal outcome
\* and completed + failed + skipped = total = number of assets; during the
\* batch the sum is the number of finished assets and never exceeds total.
C5_EveryAssetTerminal ==
    /\ Terminal(stats) = Count({ i \in Tasks : pc[i] = "done" })
    /\ Terminal(stats) <= stats.total
    /\ \A i \in Tasks : (pc[i] = "done") <=> (outcome[i] # "none")
    /\ phase # "idle" => stats.total = Len(media_files)
    /\ phase = "returned" =>
          /\ \A i \in Tasks : outcome[i] \in {"completed", "failed", "skipped"}
          /\ Terminal(stats) = stats.total

C5_Witness ==
    /\ phase = "returned"
    /\ Len(media_files) = 2
    /\ stats.completed = 1
    /\ stats.failed = 1

\* what the observed events add up to
Observed ==
    [total |-> Len(media_files),
     completed |-> Count({ i \in Tasks : outcome[i] = "completed" }),
     failed |-> Count({ i \in Tasks : outcome[i] = "failed" }),
     skipped |-> Count({ i \in Tasks : outcome[i] = "skipped" }),
     converted |-> Count({ i \in Tasks : transcoded[i] # NoContent }),
     retried |-> SumOver([i \in Tasks |-> Len(delays[i])], Tasks),
     total_bytes |-> SumOver([i \in Tasks |->
                        IF outcome[i] = "completed" THEN content[i].len ELSE 0],
                        Tasks)]

\* C6: no statistics update is lost under any interleaving: every counter
\* equals the number of its events (total_bytes the lengths of the persisted
\* contents) throughout and at the end of the batch, and no counter decreases.
C6_NoLostUpdate ==
    /\ [](stats = Observed)
    /\ [][\A f \in DOMAIN stats : stats'[f] >= stats[f]]_vars

C6_Witness ==
    /\ phase = "returned"
    /\ stats.completed = 2
    /\ stats.total_bytes = 2
    /\ stats.retried >= 2
    /\ stats.converted >= 1

\* C15: convert_image_to_jpg does not raise: on bytes it cannot decode or
\* encode it returns them unchanged, the asset goes on to be written without
\* a failure counted, and once written it is completed with those bytes.
C15_FailedConversionKeepsBytes ==
    /\ [][ \A i \in Tasks :
             (pc[i] = "convert" /\ pc'[i] # "convert"
                 /\ content[i].kind = "garbage")
             => /\ content'[i] = content[i]
                /\ pc'[i] = "open"
                /\ outcome'[i] = "none"
                /\ stats'.failed = stats.failed ]_vars
    /\ [] \A i \in Tasks :
             (outcome[i] = "completed" /\ transcoded[i].kind = "garbage")
             => /\ written[i] = <<FinalName(i)>>
                /\ content[i] = transcoded[i]
                /\ Len(media_files) = 1 => disk[FinalName(i)] = transcoded[i]

C15_Witness ==
    /\ phase = "returned"
    /\ Len(media_files) = 1
    /\ outcome[1] = "completed"
    /\ transcoded[1] = [kind |-> "garbage", len |-> 1]
    /\ disk[FinalName(1)] = [kind |-> "garbage", len |-> 1]
    /\ stats.completed = 1
    /\ stats.converted = 1

LastSeg(filename) == filename[Len(filename)]

\* the claim's assets: image kind, extension .png/.webp/.bmp, conversion on
ConvertibleImage(i) ==
    /\ CONVERT_IMAGES_TO_JPG
    /\ media_files[i].file_type = "image"
    /\ Lower(SplitExt(media_files[i].filename)) \in {"png", "webp", "bmp"}

\* C7 as stated: the persisted file of such an asset is named *.jpg and
\* holds a valid JPEG.
C7_PersistedIsJpeg ==
    \A i \in Tasks :
        (ConvertibleImage(i) /\ outcome[i] = "completed") =>
            /\ LastSeg(FinalName(i)) = "jpg"
            /\ content[i].kind = "jpeg"

\* C7 amended: the persisted file of such an asset is named *.jpg; it holds a
\* valid JPEG when the transcoder could decode and re-encode the fetched
\* bytes, and the fetched bytes unchanged when it could not.
C7_PersistedIsJpegIfDecodable ==
    \A i \in Tasks :
        (ConvertibleImage(i) /\ outcome[i] = "completed") =>
            /\ LastSeg(FinalName(i)) = "jpg"
            /\ written[i] = <<FinalName(i)>>
            /\ transcoded[i] # NoContent
            /\ transcoded[i].kind \in {"jpeg", "raster"} => content[i].kind = "jpeg"
            /\ transcoded[i].kind = "garbage" => content[i] = transcoded[i]

C7_Witness ==
    \E i \in Tasks :
        /\ ConvertibleImage(i)
        /\ outcome[i] = "completed"
        /\ transcoded[i].kind = "raster"
        /\ content[i].kind = "jpeg"
        /\ disk[FinalName(i)] = content[i]
        /\ media_files[i].filename = <<"a", "PNG">>

\* the attempts made for asset i after its first one
AttemptsAfterFirst(i) == IF requests[i] > 0 THEN requests[i] - 1 ELSE 0

\* C23: the retry counter is incremented once for each retry: when the batch
\* returns, retried is the sum over the fetched assets of the attempts made
\* minus one; during the batch it is never behind that sum and at most one
\* ahead for each asset asleep before its next attempt.
C23_RetriedCountsRetries ==
    LET retries == SumOver([i \in Tasks |-> AttemptsAfterFirst(i)], Tasks)
        asleep == Count({ i \in Tasks : pc[i] = "sleep" })
    IN  /\ stats.retried = retries + asleep
        /\ phase = "returned" => stats.retried = retries

\* two assets fetched, one at its third attempt, one at its second
C23_Witness ==
    /\ phase = "returned"
    /\ Len(media_files) = 2
    /\ requests = <<3, 2>>
    /\ stats.retried = 3
    /\ stats.completed = 2

\* C24: an asset is counted as converted only when it was transcoded, fetched
\* and persisted: converted never exceeds completed, and no asset counted as
\* failed is counted as converted.
C24_ConvertedOnlyWhenPersisted ==
    /\ stats.converted <= stats.completed
    /\ \A i \in Tasks : outcome[i] = "failed" => transcoded[i] = NoContent

\* C30: under a fair event loop, with every request and write returning, a
\* started batch returns, and every task waiting for the semaphore gets a
\* slot, since every holder gives its slot back on each terminal outcome.
C30_BatchEventuallyReturns ==
    /\ (phase = "running") ~> (phase = "returned")
    /\ \A i \in 1..MaxAssets :
          (i \in Tasks /\ pc[i] = "wait") ~> (i \in holders)

\* a returned batch of two fetched assets over one slot, one of which failed:
\* the second waited for the slot of the first
C30_Witness ==
    /\ phase = "returned"
    /\ max_concurrent = 1
    /\ Len(media_files) = 2
    /\ \A i \in Tasks : requests[i] >= 1
    /\ outcome[1] = "failed"
    /\ outcome[2] = "completed"

-----------------------------------------------------------------------------
(* Properties of the tag listing walker *)

RECURSIVE ThreadsOfLog(_)
\* the threads of the logged pages, page after page
ThreadsOfLog(log) ==
    IF log = <<>> THEN <<>>
    ELSE log[1].result.threads \o ThreadsOfLog(Tail(log))

\* the walk returns the threads of page 1, then page 2, ..., each page's rows
\* in order, and page k was requested at the k-th listing location
PageAscending ==
    /\ all_threads = ThreadsOfLog(fetch_log)
    /\ \A k \in 1..Len(fetch_log) : fetch_log[k].offset = (k - 1) * 25

FirstTotal == fetch_log[1].result.total

C10_DistinctLocations ==
    /\ \A k \in 1..Len(fetch_log) :
          /\ fetch_log[k].offset = (k - 1) * 25
          /\ fetch_log[k].url =
                (IF k = 1
                 THEN [form |-> "bare", index |-> 0, tags |-> tag_id]
                 ELSE [form |-> "index", index |-> (k - 1) * 25, tags |-> tag_id])
          /\ \A j \in 1..Len(fetch_log) :
                j # k => fetch_log[j].url # fetch_log[k].url
    /\ \A t \in TagIds : \A o1, o2 \in { k * 25 : k \in 0..MaxSitePages } \cup {1} :
          /\ o1 # o2 => TagPageUrl(t, o1) # TagPageUrl(t, o2)
          /\ o1 > 0 => TagPageUrl(t, o1).form = "index"

C10_Witness ==
    /\ wpc = "done"
    /\ Len(fetch_log) = 3
    /\ fetch_log[3].url = [form |-> "index", index |-> 50, tags |-> 14]

\* some page of the walk could not be fetched
SomePageFailed == \E k \in 1..Len(fetch_log) : ~fetch_log[k].result.ok

\* C17: a walk in which a listing page could not be fetched, page 1
\* included, still requests every page of the tag up to the page limit and
\* returns the threads of the pages it got.
C17_PageFailureDoesNotAbort ==
    (wpc = "done" /\ SomePageFailed) =>
        /\ Len(fetch_log) = LimitPages(site_pages, max_pages)
        /\ all_threads = ThreadsOfLog(fetch_log)

\* page k of the walk was fetched and held no thread
IsEmptyPage(k) ==
    fetch_log[k].result.ok /\ fetch_log[k].result.threads = <<>>

\* C26: a listing page that yields zero threads adds nothing to the result
\* and does not stop the walk: the loop is left only after its last page, so
\* every later page up to the limited total is requested and its threads are
\* appended.
C26_EmptyPageDoesNotStop ==
    /\ [][ (wpc = "loop" /\ wpc' = "done") => page > total_pages ]_vars
    /\ [] (wpc = "done" =>
             \A k \in 1..Len(fetch_log) :
                 IsEmptyPage(k) =>
                     /\ \A n \in (k + 1)..total_pages :
                           /\ n <= Len(fetch_log)
                           /\ fetch_log[n].offset = (n - 1) * 25
                     /\ ThreadsOfLog(SubSeq(fetch_log, 1, k))
                           = ThreadsOfLog(SubSeq(fetch_log, 1, k - 1))
                     /\ all_threads = ThreadsOfLog(fetch_log))

\* pages 1 and 2 hold no thread, page 3 is still requested and gives two
C26_Witness ==
    /\ wpc = "done"
    /\ Len(fetch_log) = 3
    /\ IsEmptyPage(1)
    /\ IsEmptyPage(2)
    /\ Len(fetch_log[3].result.threads) = 2
    /\ Len(all_threads) = 2

-----------------------------------------------------------------------------
(* Properties of the page count *)

\* the page numbers the pagination anchors of the tag show: from an offset,
\* and from an all-digit label
PageNumbersOf(tag, links) ==
    { (links[k].offset \div 25) + 1 :
        k \in { j \in 1..Len(links) : links[j].tags = tag /\ links[j].offset >= 0 } }
    \cup { links[k].label :
        k \in { j \in 1..Len(links) : links[j].tags = tag /\ links[j].label >= 0 } }

\* C22: the total of a fetched listing page is the largest page number its
\* pagination anchors of the tag show, from an offset (offset/25 + 1) or an
\* all-digit label, and 1 when there is none; it is never below 1.
C22_TotalIsMaxOverTagAnchors ==
    inferred_total # 0 =>
        /\ inferred_total >= 1
        /\ \A n \in PageNumbersOf(links_tag, all_links) \cup {1} :
              n <= inferred_total
        /\ inferred_total \in PageNumbersOf(links_tag, all_links) \cup {1}

-----------------------------------------------------------------------------
(* Properties of the transformer's asset list *)

\* C8: no two assets of a list the transformer returns have the same final
\* on-disk filename, so no file of the batch is written by two assets.
C8_DistinctFinalNames ==
    tpc = "returned" =>
        \A i, j \in 1..Len(collected) :
            i # j =>
                final_filename(CONVERT_IMAGES_TO_JPG, collected[i].filename)
                    # final_filename(CONVERT_IMAGES_TO_JPG, collected[j].filename)

\* the image pass is over
AfterImages == tpc \in {"videos", "expand", "cleanup", "returned"}

\* element j of the fetched document is an anchor to an original with a known
\* file type
IsOriginalAnchor(j) ==
    /\ soup0[j].tag = "a"
    /\ InStorage(soup0[j].ref)
    /\ ~IsPreview(soup0[j].ref)
    /\ get_file_type(extract_filename(normalize_url(soup0[j].ref))) # "None"

\* element j of the fetched document is an image the image pass looks at
IsWalkedImage(j) ==
    /\ soup0[j].tag = "img"
    /\ InStorage(soup0[j].ref)
    /\ ~IsChrome(soup0[j].ref)

\* the filename f is that of an original collected before the image pass
\* reaches element k: from any anchor, or from an earlier non-preview image
OriginalBefore(f, k) ==
    \/ \E j \in 1..Len(soup0) :
          /\ IsOriginalAnchor(j)
          /\ extract_filename(normalize_url(soup0[j].ref)) = f
    \/ \E j \in 1..(k - 1) :
          /\ IsWalkedImage(j)
          /\ ~IsPreview(soup0[j].ref)
          /\ get_file_type(extract_filename(soup0[j].ref)) # "None"
          /\ extract_filename(soup0[j].ref) = f

\* C11: a preview image (one the image pass looks at) whose filename is that
\* of an already-collected original adds no asset, and its element points at
\* media/<the name the original is saved under>: the .jpg name when
\* conversion is on.
C11_PreviewRepointedToOriginal ==
    AfterImages =>
        \A k \in 1..Len(soup0) :
            (/\ IsWalkedImage(k)
             /\ IsPreview(soup0[k].ref)
             /\ OriginalBefore(extract_filename(soup0[k].ref), k))
            => /\ soup[k].tag = "img"
               /\ soup[k].ref =
                     Local(final_filename(CONVERT_IMAGES_TO_JPG,
                                          extract_filename(soup0[k].ref)))
               /\ ~HasUrl(collected, normalize_url(soup0[k].ref))

C11_Witness ==
    /\ tpc = "returned"
    /\ CONVERT_IMAGES_TO_JPG
    /\ soup0 = << Elem("a", Url("rel", "main", "a", <<"h", "png">>)),
                  Elem("img", Url("rel", "main", "t", <<"h", "png">>)) >>
    /\ soup[1].ref = Local(<<"h", "jpg">>)
    /\ soup[2].ref = Local(<<"h", "jpg">>)
    /\ Len(collected) = 1

\* the page of the end-to-end scenario: an anchor to /storage/a/<hash>.png, a
\* preview image /storage/t/<hash>.png.thumb and a video /storage/c/<hash2>.mp4
ScenarioAnchor == Elem("a", Url("rel", "main", "a", <<"h", "png">>))
ScenarioPreview == Elem("img", Url("rel", "main", "t", <<"h", "png", "thumb">>))
ScenarioVideo == Elem("video", Url("rel", "main", "c", <<"w", "mp4">>))

\* the fetched document holds exactly these three elements, in any order
IsScenarioPage ==
    /\ Len(soup0) = 3
    /\ { soup0[k] : k \in 1..3 } = {ScenarioAnchor, ScenarioPreview, ScenarioVideo}

IsLocalMedia(ref) == ref.scheme = "local" /\ ref.dir = "media"

C19_AnalyticsScriptsStripped ==
    tpc = "returned" =>
        \A k \in 1..Len(soup0) :
            (soup0[k].tag = "script" /\ ContainsMarker(normalize_url(soup0[k].ref)))
                => soup[k] = Decomposed

\* C20: the returned media list holds no two assets with the same source
\* url, whichever of the collection steps (anchors, images, video elements,
\* expand_local calls) met it.
C20_DistinctSourceUrls ==
    tpc = "returned" =>
        \A i, j \in 1..Len(collected) :
            collected[i].url = collected[j].url => i = j

\* element k of the fetched document is an image under the preview path named
\* <stem>.thumb, stem being that of the collected asset m
IsThumbOf(k, m) ==
    /\ IsWalkedImage(k)
    /\ IsPreview(soup0[k].ref)
    /\ EndsWithThumb(extract_filename(soup0[k].ref))
    /\ DropThumb(extract_filename(soup0[k].ref), 1) = Stem(m.filename)

\* C21: for every video of the returned asset list, collected from an anchor,
\* a video element or an expand_local call, a preview image named <stem>.thumb
\* with the video's stem yields an asset <stem>_thumb.jpg and points at
\* media/<stem>_thumb.jpg.
C21_ThumbnailForEveryVideo ==
    tpc = "returned" =>
        \A j \in 1..Len(collected) : \A k \in 1..Len(soup0) :
            (collected[j].file_type = "video" /\ IsThumbOf(k, collected[j]))
            => /\ HasFilename(collected, ThumbFilename(Stem(collected[j].filename)))
               /\ soup[k].ref = Local(ThumbFilename(Stem(collected[j].filename)))

\* C29: every image element the transformer points at media/<name> has an
\* asset in the returned media list that is saved under <name>, so the
\* document points at no local media file that will not be downloaded.
C29_RewrittenImageHasAsset ==
    tpc = "returned" =>
        \A k \in 1..Len(soup0) :
            (soup0[k].tag = "img" /\ IsLocalMedia(soup[k].ref))
            => \E j \in 1..Len(collected) :
                   final_filename(CONVERT_IMAGES_TO_JPG, collected[j].filename)
                       = soup[k].ref.name

-----------------------------------------------------------------------------
(* Properties of the folder naming *)

\* the date string holds two digits, a slash, two digits, a slash and two
\* digits somewhere
ContainsDate(s) == \E k \in 1..Len(s) : MatchAt(s, k)

\* C13: a date string containing DD/MM/YY names the folder DD.MM.YY_<id>,
\* with the digits of that date; every date string without such a pattern,
\* the empty one included, names it thread_<id>.
C13_FolderNameFromDate ==
    folder_name # <<>> =>
        IF ContainsDate(thread_date)
        THEN \E k \in 1..Len(thread_date) :
                /\ MatchAt(thread_date, k)
                /\ folder_name =
                      << thread_date[k], thread_date[k + 1], ".",
                         thread_date[k + 3], thread_date[k + 4], ".",
                         thread_date[k + 6], thread_date[k + 7], "_",
                         thread_id >>
        ELSE folder_name = << "thread_", thread_id >>

\* a date that does not start the string, and the empty string
C13_Witness ==
    /\ thread_date = <<"x", "1", "2", "/", "2", "1", "/", "1", "1">>
    /\ thread_id = "1122323"
    /\ folder_name = <<"1", "2", ".", "2", "1", ".", "1", "1", "_", "1122323">>

RECURSIVE NameLength(_)
\* the number of characters of a name
NameLength(name) ==
    IF name = <<>> THEN 0 ELSE Head(name).n + NameLength(Tail(name))

\* C25: the name sanitize_folder_name returns has at most 200 characters,
\* none of them one of < > : " / \ | ? *, and does not end with a dot or a
\* space.
C25_SanitizedNameIsSafe ==
    safe_name # <<>> =>
        /\ NameLength(safe_name) <= 200
        /\ \A k \in 1..Len(safe_name) :
              safe_name[k].ch \notin {"<", ">", ":", "\"", "/", "\\", "|", "?", "*"}
        /\ safe_name[Len(safe_name)].ch \notin {".", " "}

-----------------------------------------------------------------------------
(* Properties of the watch-list *)

\* the list as the next operation will load it
StoredList == load_monitor_list(monitor_file)

\* no two entries of the list have the same id and the same kind
DistinctEntries(items) ==
    \A j, k \in 1..Len(items) :
        (items[j].item_id = items[k].item_id
            /\ items[j].item_type = items[k].item_type) => j = k

WithinLimits(items) == Len(items) <= 20 /\ DistinctEntries(items)

\* the operation op is an add whose input names a thread or a tag
NamesEntry(op) ==
    /\ op.op = "add"
    /\ \/ op.choice = "1" /\ op.form = "ok"
       \/ op.choice = "2" /\ op.form \in {"digits", "url"}

EntryOf(op) ==
    MonitorItem(IF op.choice = "1" THEN "thread" ELSE "tag", op.id)

\* C14: after any sequence of adds and removes from the empty watch-list the
\* stored list has at most 20 entries, no two of them with the same id and
\* kind; an add whose entry would break either leaves the stored list as it
\* was.
C14_WatchListBounded ==
    /\ [] WithinLimits(StoredList)
    /\ [][ (NamesEntry(monitor_op')
              /\ ~WithinLimits(Append(StoredList, EntryOf(monitor_op'))))
            => monitor_file' = monitor_file ]_vars

\* the list is full and the add of an entry it does not hold was refused
C14_Witness ==
    /\ Len(StoredList) = 20
    /\ NamesEntry(monitor_op)
    /\ ~InMonitor(StoredList, EntryOf(monitor_op).item_type,
                  EntryOf(monitor_op).item_id)

-----------------------------------------------------------------------------
(* Properties of the bulk archival *)

\* the threads the loop body ran for, in the order it ran
AttemptedThreads == [k \in 1..Len(attempted) |-> attempted[k].thread]

\* C18: the loop over the listed threads attempts every thread, in the order
\* of the list it iterates (the listing, reversed when the menu flow is asked
\* to), whether earlier threads were saved, could not be fetched or raised;
\* when the loop of the menu flow ends, successful + failed is the number of
\* listed threads.
C18_EveryThreadAttempted ==
    /\ AttemptedThreads = SubSeq(threads, 1, thread_index)
    /\ bpc \notin {"idle", "loop", "returned"} =>
          /\ AttemptedThreads = threads
          /\ threads = listing \/ threads = Reversed(listing)
          /\ bulk_flow = "cli" => threads = listing
          /\ bulk_flow = "interactive" => successful + failed = Len(listing)
          /\ successful =
                Cardinality({ k \in 1..Len(attempted) : attempted[k].outcome = "ok" })

\* three threads listed; the first raised, the second could not be fetched,
\* and the third was still attempted and saved
C18_Witness ==
    /\ bpc = "done"
    /\ bulk_flow = "interactive"
    /\ listing = <<1, 2, 3>>
    /\ attempted = << [thread |-> 1, outcome |-> "raised"],
                      [thread |-> 2, outcome |-> "no_html"],
                      [thread |-> 3, outcome |-> "ok"] >>
    /\ successful = 1
    /\ failed = 2

-----------------------------------------------------------------------------
(* Properties of the archival of one thread *)

\* C27: when the thread page cannot be fetched, parse_thread returns no
\* document and empty media and resource lists, and the flow creates no
\* thread folder, writes no thread.html, requests no resource file and starts
\* no media batch.
C27_FailedFetchLeavesNoTrace ==
    tpc = "failed" =>
        /\ collected = <<>>
        /\ resource_files = <<>>
        /\ thread_dir = NoThreadDir
        /\ phase = "idle"
        /\ media_files = <<>>
        /\ disk = disk0

\* the flow has returned after a fetch of the thread page that failed
C27_Witness ==
    /\ tpc = "failed"
    /\ apc = "returned"

\* C28: once the document is rewritten and the batch has returned with
\* failed = 0, the file named by every media/<name> reference that stands for
\* a collected asset exists in the media directory, whatever an earlier run
\* left there.
C28_ReferencedMediaExists ==
    (apc = "returned" /\ phase = "returned" /\ stats.failed = 0) =>
        \A k \in 1..Len(thread_dir.html), j \in 1..Len(collected) :
            ( /\ IsLocalMedia(thread_dir.html[k].ref)
              /\ thread_dir.html[k].ref.name
                   = get_html_filename(CONVERT_IMAGES_TO_JPG,
                                       collected[j].filename) )
            => Exists(disk, thread_dir.html[k].ref.name)

====
